---- MODULE Spec2Model ----
(***************************************************************************)
(* Compass Token Sync (Figma plugin): extraction of design tokens from    *)
(* the variable graph, validation, change detection against the remote    *)
(* repository and the sync-to-github message handler.                     *)
(*                                                                         *)
(* Strings that the code takes apart (variable names, text-style names,   *)
(* token values) are sequences of lexemes: a maximal run of letters or    *)
(* of digits is one lexeme, every other character is a lexeme of its own. *)
(* "blue/500" is <<"blue", "/", "500">>, "#1C58D9" is the sequence of its *)
(* seven characters.  A JavaScript object is a record [order, at]: the    *)
(* key sequence Object.keys returns and the map from key to member.       *)
(***************************************************************************)
EXTENDS Integers, Sequences, FiniteSets, TLC

Null == [null |-> TRUE]

(* ---------------------------------------------------------------------- *)
(* JavaScript values and objects                                          *)
(* ---------------------------------------------------------------------- *)

Str(s) == [str |-> s]
Num(n) == [num |-> n]
Arr(a) == [arr |-> a]
Undefined == [undef |-> TRUE]

IsStr(v) == "str" \in DOMAIN v
IsNum(v) == "num" \in DOMAIN v
IsArr(v) == "arr" \in DOMAIN v

Range(s) == {s[i] : i \in DOMAIN s}

\* The decimal numerals the model meets.
Numerals == {0, 1, 2, 4, 8, 12, 16, 20, 24, 25, 32, 40, 48, 50, 56, 64, 72, 75, 80, 88, 96,
             100, 200, 300, 400, 500, 600, 700, 800, 900, 1000}

\* parseInt / Number on a decimal numeral.
DigitVal(t) == CHOOSE n \in Numerals : ToString(n) = t

\* \d+
IsDigits(t) == \E n \in Numerals : ToString(n) = t

\* The integer of an object key that JavaScript orders before the string keys,
\* ascending; -1 for any other key.
IndexOfKey(k) == IF Len(k) = 1 /\ IsDigits(k[1]) THEN DigitVal(k[1]) ELSE -1

EmptyObj == [order |-> <<>>, at |-> <<>>]

ObjKeys(o) == o.order
ObjHas(o, k) == k \in Range(o.order)
ObjGet(o, k) == IF ObjHas(o, k) THEN o.at[k] ELSE Undefined
ObjSize(o) == Len(o.order)

\* Position at which a new key k enters the key order of an object.
InsertPos(order, k) ==
  LET place(index) ==
        IF index < 0 THEN Len(order) + 1
        ELSE 1 + Cardinality({i \in DOMAIN order : IndexOfKey(order[i]) \in 0..(index - 1)})
  IN place(IndexOfKey(k))

\* o[k] = v
ObjSet(o, k, v) ==
  LET insert(p) == SubSeq(o.order, 1, p - 1) \o <<k>> \o SubSeq(o.order, p, Len(o.order))
      put(order2) == [order |-> order2,
                      at |-> [x \in Range(order2) |-> IF x = k THEN v ELSE o.at[x]]]
  IN put(IF ObjHas(o, k) THEN o.order ELSE insert(InsertPos(o.order, k)))

\* Object literal built by assigning the keys of ks (in order) from the map f.
RECURSIVE ObjFrom(_, _)
ObjFrom(ks, f) ==
  IF ks = <<>> THEN EmptyObj
  ELSE ObjSet(ObjFrom(SubSeq(ks, 1, Len(ks) - 1), f), ks[Len(ks)], f[ks[Len(ks)]])

(* ---------------------------------------------------------------------- *)
(* Configuration                                                          *)
(* ---------------------------------------------------------------------- *)

TOKEN_FILES ==
  [FOUNDATION_COLOR |-> "tokens/src/foundation/color.json",
   SEMANTIC_ATTACHMENT |-> "tokens/src/semantic/attachment.json",
   FOUNDATION_RADIUS |-> "tokens/src/foundation/radius.json",
   FOUNDATION_SPACING |-> "tokens/src/foundation/spacing.json",
   TYPOGRAPHY_FOUNDATION |-> "tokens/src/foundation/typography.json",
   TYPOGRAPHY_SEMANTIC |-> "tokens/src/semantic/typography.json",
   THEME_DENIM |-> "tokens/src/themes/denim.json",
   THEME_SAPPHIRE |-> "tokens/src/themes/sapphire.json",
   THEME_QUARTZ |-> "tokens/src/themes/quartz.json",
   THEME_ONYX |-> "tokens/src/themes/onyx.json",
   THEME_INDIGO |-> "tokens/src/themes/indigo.json"]

\* Object.keys(THEME_MODE_TO_FILE)
ThemeNames == <<"Denim", "Sapphire", "Quartz", "Onyx", "Indigo">>

THEME_MODE_TO_FILE ==
  [t \in Range(ThemeNames) |->
    CASE t = "Denim" -> TOKEN_FILES.THEME_DENIM
      [] t = "Sapphire" -> TOKEN_FILES.THEME_SAPPHIRE
      [] t = "Quartz" -> TOKEN_FILES.THEME_QUARTZ
      [] t = "Onyx" -> TOKEN_FILES.THEME_ONYX
      [] t = "Indigo" -> TOKEN_FILES.THEME_INDIGO]

\* toLowerCase on the lexemes the program meets.
ToLowerCase(t) ==
  CASE t = "Denim" -> "denim" [] t = "Sapphire" -> "sapphire" [] t = "Quartz" -> "quartz"
    [] t = "Onyx" -> "onyx" [] t = "Indigo" -> "indigo"
    [] t = "Heading" -> "heading" [] t = "Body" -> "body" [] t = "Code" -> "code"
    [] t = "Regular" -> "regular" [] t = "Light" -> "light" [] t = "Bold" -> "bold"
    [] t = "Semibold" -> "semibold" [] t = "Blue" -> "blue"
    [] OTHER -> t

LowerAll(s) == [i \in DOMAIN s |-> ToLowerCase(s[i])]

\* The order in which fetchAllCurrentTokens reads the files.
FileOrder ==
  <<TOKEN_FILES.FOUNDATION_COLOR, TOKEN_FILES.SEMANTIC_ATTACHMENT,
    TOKEN_FILES.FOUNDATION_RADIUS, TOKEN_FILES.FOUNDATION_SPACING,
    TOKEN_FILES.TYPOGRAPHY_FOUNDATION, TOKEN_FILES.TYPOGRAPHY_SEMANTIC>>
  \o [i \in DOMAIN ThemeNames |-> THEME_MODE_TO_FILE[ThemeNames[i]]]

Files == Range(FileOrder)
ThemeFiles == {THEME_MODE_TO_FILE[t] : t \in Range(ThemeNames)}
ThemeOf(f) == CHOOSE t \in Range(ThemeNames) : THEME_MODE_TO_FILE[t] = f

(* ---------------------------------------------------------------------- *)
(* Naming taxonomy                                                        *)
(* ---------------------------------------------------------------------- *)

ColorFamilies == {"blue", "indigo", "neutral", "cyan", "purple", "teal", "yellow",
                  "orange", "green", "red"}
AttachmentColors == {"blue", "green", "orange", "red", "grey"}
RadiusSizes == <<"xs", "s", "m", "l", "xl", "full">>
SpacingSizes == <<"xxxxs", "xs", "m", "l", "xl", "xxl", "xxxl", "xxxxl">>
FontSizes == {"25", "50", "75", "100", "200", "300", "400", "500", "600", "700",
              "800", "900", "1000"}
\* Lexemes made of ASCII letters only ([a-z]+ under the i flag).
Words == ColorFamilies \cup AttachmentColors \cup Range(RadiusSizes) \cup Range(SpacingSizes)
         \cup {"Blue", "attachment", "radius", "spacing", "font", "family", "size", "weight",
               "heading", "body", "code", "mono", "line", "height", "letter", "light",
               "regular", "semi", "bold", "tight", "normal", "wide", "sidebar", "bg",
               "button"}

FOUNDATION_COLOR_PATTERN(name) ==
  Len(name) = 3 /\ name[1] \in ColorFamilies /\ name[2] = "/" /\ IsDigits(name[3])
SEMANTIC_ATTACHMENT_PATTERN(name) ==
  Len(name) = 3 /\ name[1] = "attachment" /\ name[2] = "/" /\ name[3] \in AttachmentColors
FOUNDATION_RADIUS_PATTERN(name) ==
  Len(name) = 3 /\ name[1] = "radius" /\ name[2] = "-" /\ name[3] \in Range(RadiusSizes)
FOUNDATION_SPACING_PATTERN(name) ==
  Len(name) = 3 /\ name[1] = "spacing" /\ name[2] = "-" /\ name[3] \in Range(SpacingSizes)
TYPOGRAPHY_FONT_FAMILY_PATTERN(name) ==
  Len(name) = 5 /\ SubSeq(name, 1, 4) = <<"font", "/", "family", "/">>
    /\ name[5] \in {"heading", "body", "code"}
TYPOGRAPHY_FONT_SIZE_PATTERN(name) ==
  Len(name) = 5 /\ SubSeq(name, 1, 4) = <<"font", "/", "size", "/">> /\ name[5] \in FontSizes
TYPOGRAPHY_FONT_WEIGHT_PATTERN(name) ==
  /\ Len(name) >= 5
  /\ SubSeq(name, 1, 4) = <<"font", "/", "weight", "/">>
  /\ SubSeq(name, 5, Len(name)) \in {<<"light">>, <<"regular">>, <<"semi", "-", "bold">>, <<"bold">>}
TYPOGRAPHY_LINE_HEIGHT_PATTERN(name) ==
  /\ Len(name) = 7
  /\ SubSeq(name, 1, 4) = <<"line", "-", "height", "/">>
  /\ name[5] \in {"heading", "body"} /\ name[6] = "/" /\ IsDigits(name[7])
TYPOGRAPHY_LETTER_SPACING_PATTERN(name) ==
  /\ Len(name) >= 5
  /\ SubSeq(name, 1, 4) = <<"letter", "-", "spacing", "/">>
  /\ SubSeq(name, 5, Len(name)) \in {<<"tight", "-", "2">>, <<"tight", "-", "1">>, <<"normal">>,
                                      <<"wide", "-", "1">>, <<"wide", "-", "2">>}

PatternTest(pattern, name) ==
  CASE pattern = "FOUNDATION_COLOR_PATTERN" -> FOUNDATION_COLOR_PATTERN(name)
    [] pattern = "SEMANTIC_ATTACHMENT_PATTERN" -> SEMANTIC_ATTACHMENT_PATTERN(name)
    [] pattern = "FOUNDATION_RADIUS_PATTERN" -> FOUNDATION_RADIUS_PATTERN(name)
    [] pattern = "FOUNDATION_SPACING_PATTERN" -> FOUNDATION_SPACING_PATTERN(name)
    [] pattern = "TYPOGRAPHY_FONT_FAMILY_PATTERN" -> TYPOGRAPHY_FONT_FAMILY_PATTERN(name)
    [] pattern = "TYPOGRAPHY_FONT_SIZE_PATTERN" -> TYPOGRAPHY_FONT_SIZE_PATTERN(name)
    [] pattern = "TYPOGRAPHY_FONT_WEIGHT_PATTERN" -> TYPOGRAPHY_FONT_WEIGHT_PATTERN(name)
    [] pattern = "TYPOGRAPHY_LINE_HEIGHT_PATTERN" -> TYPOGRAPHY_LINE_HEIGHT_PATTERN(name)
    [] pattern = "TYPOGRAPHY_LETTER_SPACING_PATTERN" -> TYPOGRAPHY_LETTER_SPACING_PATTERN(name)

Category(type, path, pattern, variableType, subtype) ==
  [type |-> type, path |-> path, pattern |-> pattern, variableType |-> variableType,
   subtype |-> subtype]

TOKEN_CATEGORIES ==
  <<Category("foundation-color", TOKEN_FILES.FOUNDATION_COLOR, "FOUNDATION_COLOR_PATTERN", "COLOR", ""),
    Category("semantic-attachment", TOKEN_FILES.SEMANTIC_ATTACHMENT, "SEMANTIC_ATTACHMENT_PATTERN", "COLOR", ""),
    Category("foundation-radius", TOKEN_FILES.FOUNDATION_RADIUS, "FOUNDATION_RADIUS_PATTERN", "FLOAT", ""),
    Category("foundation-spacing", TOKEN_FILES.FOUNDATION_SPACING, "FOUNDATION_SPACING_PATTERN", "FLOAT", ""),
    Category("typography-foundation", TOKEN_FILES.TYPOGRAPHY_FOUNDATION, "TYPOGRAPHY_FONT_FAMILY_PATTERN", "STRING", "fontFamily"),
    Category("typography-foundation", TOKEN_FILES.TYPOGRAPHY_FOUNDATION, "TYPOGRAPHY_FONT_SIZE_PATTERN", "FLOAT", "fontSize"),
    Category("typography-foundation", TOKEN_FILES.TYPOGRAPHY_FOUNDATION, "TYPOGRAPHY_FONT_WEIGHT_PATTERN", "FLOAT", "fontWeight"),
    Category("typography-foundation", TOKEN_FILES.TYPOGRAPHY_FOUNDATION, "TYPOGRAPHY_FONT_WEIGHT_PATTERN", "STRING", "fontWeight"),
    Category("typography-foundation", TOKEN_FILES.TYPOGRAPHY_FOUNDATION, "TYPOGRAPHY_LINE_HEIGHT_PATTERN", "FLOAT", "lineHeight"),
    Category("typography-foundation", TOKEN_FILES.TYPOGRAPHY_FOUNDATION, "TYPOGRAPHY_LETTER_SPACING_PATTERN", "FLOAT", "letterSpacing")>>

\* A classification that ignores the kind of the variable.
categorizeVariable_AnyKind(name, resolvedType) ==
  LET first(categories, hits) ==
        IF hits = {} THEN Null ELSE categories[CHOOSE i \in hits : \A j \in hits : i <= j]
      scan(categories) ==
        first(categories, {i \in DOMAIN categories : PatternTest(categories[i].pattern, name)})
  IN scan(TOKEN_CATEGORIES)

categorizeVariable(name, resolvedType) ==
  LET first(categories, hits) ==
        IF hits = {} THEN Null ELSE categories[CHOOSE i \in hits : \A j \in hits : i <= j]
      scan(categories) ==
        first(categories, {i \in DOMAIN categories :
                             /\ PatternTest(categories[i].pattern, name)
                             /\ categories[i].variableType = resolvedType})
  IN scan(TOKEN_CATEGORIES)

IsWord(t) == t \in Words

\* String.prototype.split on a one-character separator.
RECURSIVE Split(_, _)
Split(s, sep) ==
  IF \A i \in DOMAIN s : s[i] # sep THEN <<s>>
  ELSE LET p == CHOOSE i \in DOMAIN s : s[i] = sep /\ \A j \in 1..(i - 1) : s[j] # sep
       IN <<SubSeq(s, 1, p - 1)>> \o Split(SubSeq(s, p + 1, Len(s)), sep)

\* String.prototype.trim
RECURSIVE Trim(_)
Trim(s) ==
  IF s # <<>> /\ s[1] = " " THEN Trim(Tail(s))
  ELSE IF s # <<>> /\ s[Len(s)] = " " THEN Trim(SubSeq(s, 1, Len(s) - 1))
  ELSE s

HexDigits == <<"0", "1", "2", "3", "4", "5", "6", "7", "8", "9", "A", "B", "C", "D", "E", "F">>

\* A colour channel is held in thousandths (0..1000 for Figma's 0..1).
toHex(n) ==
  LET value == (n * 255 + 500) \div 1000
  IN <<HexDigits[(value \div 16) + 1], HexDigits[(value % 16) + 1]>>

rgbToHex(rgba) == <<"#">> \o toHex(rgba.r) \o toHex(rgba.g) \o toHex(rgba.b)

parseFoundationColorName(name) ==
  IF Len(name) = 3 /\ IsWord(name[1]) /\ name[2] = "/" /\ IsDigits(name[3])
    THEN [family |-> ToLowerCase(name[1]), shade |-> name[3]]
    ELSE Null

parseFoundationRadiusName(name) ==
  IF Len(name) = 3 /\ ToLowerCase(name[1]) = "radius" /\ name[2] = "-" /\ IsWord(name[3])
    THEN [size |-> ToLowerCase(name[3])]
    ELSE Null

parseFoundationSpacingName(name) ==
  IF Len(name) = 3 /\ ToLowerCase(name[1]) = "spacing" /\ name[2] = "-" /\ IsWord(name[3])
    THEN [size |-> ToLowerCase(name[3])]
    ELSE Null

parseSemanticAttachmentName(name) ==
  IF Len(name) = 3 /\ ToLowerCase(name[1]) = "attachment" /\ name[2] = "/" /\ IsWord(name[3])
    THEN [color |-> ToLowerCase(name[3])]
    ELSE Null

\* value.split(',').map(s => s.trim())
parseFontFamily(value) ==
  LET parts == Split(value, ",") IN [i \in DOMAIN parts |-> Trim(parts[i])]

HasPrefix(name, prefix) ==
  Len(name) > Len(prefix) /\ LowerAll(SubSeq(name, 1, Len(prefix))) = prefix

Rest(name, prefix) == SubSeq(name, Len(prefix) + 1, Len(name))

\* Property keys are strings; the model keeps them as lexeme sequences.
parseTypographyVariableName(name) ==
  LET fam == <<"font", "/", "family", "/">>
      siz == <<"font", "/", "size", "/">>
      wgt == <<"font", "/", "weight", "/">>
      lin == <<"line", "-", "height", "/">>
      let == <<"letter", "-", "spacing", "/">>
      wordsOrDash(s) == \A i \in DOMAIN s : IsWord(s[i]) \/ s[i] = "-"
  IN IF HasPrefix(name, fam) /\ wordsOrDash(Rest(name, fam))
       THEN LET familyName == LowerAll(Rest(name, fam))
            IN [property |-> "fontFamily",
                value |-> IF familyName = <<"code">> THEN <<"mono">> ELSE familyName]
     ELSE IF HasPrefix(name, siz) /\ Len(name) = 5 /\ IsDigits(name[5])
       THEN [property |-> "fontSize", value |-> <<name[5]>>]
     ELSE IF HasPrefix(name, wgt) /\ wordsOrDash(Rest(name, wgt))
       THEN LET weightName == LowerAll(Rest(name, wgt))
            IN [property |-> "fontWeight",
                value |-> IF weightName = <<"semi", "-", "bold">> THEN <<"semibold">>
                          ELSE weightName]
     ELSE IF /\ HasPrefix(name, lin) /\ Len(name) = 7
             /\ ToLowerCase(name[5]) \in {"heading", "body"} /\ name[6] = "/"
             /\ IsDigits(name[7])
       THEN [property |-> "lineHeight", value |-> <<name[7]>>]
     ELSE IF HasPrefix(name, let)
       THEN [property |-> "letterSpacing", value |-> LowerAll(Rest(name, let))]
     ELSE Null

\* Text-style names: "Heading 700 - Regular".
parseSemanticTypographyName(name) ==
  IF /\ Len(name) >= 3
     /\ name[1] \in {"Heading", "Body", "Code"} /\ name[2] = " " /\ name[3] \in FontSizes
     /\ \/ Len(name) = 3
        \/ Len(name) >= 7 /\ SubSeq(name, 4, 6) = <<" ", "-", " ">>
    THEN LET variantRaw == SubSeq(name, 7, Len(name))
         IN [category |-> ToLowerCase(name[1]),
             size |-> name[3],
             variant |-> IF Len(name) = 3 THEN <<>>
                         ELSE IF variantRaw = <<"All", " ", "Caps">> THEN <<"allCaps">>
                         ELSE LowerAll(variantRaw)]
    ELSE Null

mapFontWeightToToken(weight) ==
  IF weight <= 300 THEN "light"
  ELSE IF weight <= 400 THEN "regular"
  ELSE IF weight <= 600 THEN "semibold"
  ELSE "bold"

mapLetterSpacingToToken(spacing) ==
  IF spacing <= -2 THEN <<"tight", "-", "2">>
  ELSE IF spacing <= -1 THEN <<"tight", "-", "1">>
  ELSE IF spacing <= 0 THEN <<"normal">>
  ELSE IF spacing <= 1 THEN <<"wide", "-", "1">>
  ELSE <<"wide", "-", "2">>

\* "blue/300" becomes "{color.foundation.blue.300}"; any other shape is returned as is.
buildReference(variableName) ==
  LET parts == Split(variableName, "/")
  IN IF Len(parts) = 2
       THEN <<"{", "color", ".", "foundation", ".">> \o parts[1] \o <<".">> \o parts[2] \o <<"}">>
       ELSE variableName

OPACITY_SUFFIXES == {"4", "8", "12", "16", "20", "24", "32", "40", "48", "56", "64", "72",
                     "80", "88", "96"}

\* A test that takes no name for an opacity variant.
HasOpacitySuffix_Never(name) == FALSE

\* /-(4|8|12|16|20|24|32|40|48|56|64|72|80|88|96)$/
HasOpacitySuffix(name) ==
  Len(name) >= 2 /\ name[Len(name) - 1] = "-" /\ name[Len(name)] \in OPACITY_SUFFIXES

(* ---------------------------------------------------------------------- *)
(* The variable graph (Figma document)                                    *)
(* ---------------------------------------------------------------------- *)

\* Stored values: a colour, an alias, a number or a string.
Rgba(r, g, b, a) == [rgba |-> [r |-> r, g |-> g, b |-> b, a |-> a]]
Alias(id) == [alias |-> id]

IsRgba(v) == "rgba" \in DOMAIN v
IsAlias(v) == "alias" \in DOMAIN v

Mode(modeId, name) == [modeId |-> modeId, name |-> name]

\* The two variable collections of the document.
Collections ==
  {[id |-> "primitives", modes |-> <<Mode("p0", "Mode 1")>>],
   [id |-> "themes", modes |-> <<Mode("t0", "Denim"), Mode("t1", "Onyx")>>]}

getVariableCollectionById(id) ==
  IF \E c \in Collections : c.id = id THEN CHOOSE c \in Collections : c.id = id ELSE Null

\* valuesByMode is the sequence of [modeId, value] entries, in key order.
Variable(id, name, resolvedType, collection, valuesByMode) ==
  [id |-> id, name |-> name, resolvedType |-> resolvedType,
   variableCollectionId |-> collection, valuesByMode |-> valuesByMode]

\* variable.valuesByMode[Object.keys(variable.valuesByMode)[0]]
FirstModeValue(variable) == variable.valuesByMode[1].value

ValueInMode(variable, modeId) ==
  LET hit == {i \in DOMAIN variable.valuesByMode : variable.valuesByMode[i].modeId = modeId}
  IN IF hit = {} THEN Undefined ELSE variable.valuesByMode[CHOOSE i \in hit : TRUE].value

getLocalVariables(doc, resolvedType) ==
  LET ofType(v) == v.resolvedType = resolvedType IN SelectSeq(doc.vars, ofType)

getVariableById(doc, id) ==
  LET hit == {i \in DOMAIN doc.vars : doc.vars[i].id = id}
  IN IF hit = {} THEN Null ELSE doc.vars[CHOOSE i \in hit : TRUE]

(* ---------------------------------------------------------------------- *)
(* Token trees                                                            *)
(* ---------------------------------------------------------------------- *)

\* A token file: $schema present, the root path of its category present, and the
\* object under the root path.
Tree(body) == [schema |-> TRUE, root |-> TRUE, body |-> body]

Token(type, value) == [type |-> type, value |-> value]

FULL_DESCRIPTION == "Full radius - circular elements, pills, fully rounded buttons"

TypographyProperties == <<"fontFamily", "fontSize", "fontWeight", "lineHeight", "letterSpacing">>
SemanticCategories == <<"heading", "body", "code">>

\* { fontFamily: {}, fontSize: {}, ... }
EmptyGroups(names) ==
  [order |-> [i \in DOMAIN names |-> <<names[i]>>],
   at |-> [k \in {<<names[i]>> : i \in DOMAIN names} |-> EmptyObj]]

\* o[g][k] = v
ObjSet2(o, g, k, v) == ObjSet(o, g, ObjSet(IF ObjHas(o, g) THEN o.at[g] ELSE EmptyObj, k, v))

RECURSIVE FoldSeq(_, _, _)
FoldSeq(op(_, _), acc, s) ==
  IF s = <<>> THEN acc ELSE FoldSeq(op, op(acc, s[1]), Tail(s))

StatNames == {"foundationColors", "semanticAttachment", "foundationRadius", "foundationSpacing",
              "foundationTypography", "semanticTypography", "total"}

ZeroStats == [c \in StatNames |-> [processed |-> 0, skipped |-> 0]]

Processed(stats, c) ==
  [stats EXCEPT ![c].processed = @ + 1, !["total"].processed = @ + 1]
Skipped(stats, c) ==
  [stats EXCEPT ![c].skipped = @ + 1, !["total"].skipped = @ + 1]
TotalSkipped(stats) == [stats EXCEPT !["total"].skipped = @ + 1]

\* Stable insertion of x into the sorted sequence s under the comparator cmp
\* (Array.prototype.sort with a consistent comparator).
RECURSIVE SortedInsert(_, _, _)
SortedInsert(cmp(_, _), s, x) ==
  IF s = <<>> THEN <<x>>
  ELSE IF cmp(s[Len(s)], x) <= 0 THEN Append(s, x)
  ELSE Append(SortedInsert(cmp, SubSeq(s, 1, Len(s) - 1), x), s[Len(s)])

RECURSIVE StableSort(_, _)
StableSort(cmp(_, _), s) ==
  IF s = <<>> THEN <<>>
  ELSE SortedInsert(cmp, StableSort(cmp, SubSeq(s, 1, Len(s) - 1)), s[Len(s)])

(* ---------------------------------------------------------------------- *)
(* Semantic typography from text styles                                   *)
(* ---------------------------------------------------------------------- *)

Alphabetical == <<"allCaps", "bold", "light", "regular", "semibold">>

WordRank(w) == CHOOSE i \in DOMAIN Alphabetical : Alphabetical[i] = w

\* String.prototype.localeCompare on variant names.
RECURSIVE localeCompare(_, _)
localeCompare(a, b) ==
  IF a = <<>> /\ b = <<>> THEN 0
  ELSE IF a = <<>> THEN -1
  ELSE IF b = <<>> THEN 1
  ELSE IF a[1] = b[1] THEN localeCompare(Tail(a), Tail(b))
  ELSE WordRank(a[1]) - WordRank(b[1])

\* A comparator that leaves the keys as they were inserted.
SemanticKeyCompare_Inserted(a, b) == 0

\* Comparator of the semantic typography keys ("1000", "1000-regular").
SemanticKeyCompare(a, b) ==
  LET variant(k) == IF "-" \in Range(k) THEN SubSeq(k, 3, Len(k)) ELSE <<>>
      compare(sizeA, sizeB, variantA, variantB) ==
        IF sizeA # sizeB THEN sizeA - sizeB
        ELSE IF variantA = <<>> /\ variantB # <<>> THEN -1
        ELSE IF variantA # <<>> /\ variantB = <<>> THEN 1
        ELSE localeCompare(variantA, variantB)
  IN compare(DigitVal(a[1]), DigitVal(b[1]), variant(a), variant(b))

TypographyRef(property, key) ==
  Str(<<"{", "typography", ".", "foundation", ".", property, ".">> \o key \o <<"}">>)

SemanticStyleStep(acc, style) ==
  LET weightToken(category, variant) ==
        IF category = "body"
          THEN (IF variant = <<"semibold">> THEN "semibold" ELSE "regular")
        ELSE IF category = "heading"
          THEN (IF variant = <<"regular">> THEN "regular"
                ELSE IF variant = <<"light">> THEN "light" ELSE "semibold")
        ELSE "semibold"
      letterSpacingValue ==
        IF style.letterSpacing.unit = "PIXELS" THEN style.letterSpacing.value ELSE 0
      add(category, size, variant) ==
        [acc EXCEPT
           !.semantic =
             ObjSet2(@, <<category>>,
                     IF variant # <<>> THEN <<size, "-">> \o variant ELSE <<size>>,
                     Token("typography",
                           [fontFamily |-> TypographyRef("fontFamily", <<category>>),
                            fontSize |-> TypographyRef("fontSize", <<size>>),
                            fontWeight |-> TypographyRef("fontWeight",
                                                         <<weightToken(category, variant)>>),
                            lineHeight |-> TypographyRef("lineHeight", <<size>>),
                            letterSpacing |->
                              TypographyRef("letterSpacing",
                                            mapLetterSpacingToToken(letterSpacingValue))])),
           !.stats.processed = @ + 1]
      step(parsed) ==
        IF parsed = Null THEN [acc EXCEPT !.stats.skipped = @ + 1]
        ELSE add(parsed.category, parsed.size, parsed.variant)
  IN step(parseSemanticTypographyName(style.name))

\* keyOrderMap: the key list registered for each category object that has keys.
extractSemanticTypographyTokens(doc) ==
  LET start == [semantic |-> EmptyGroups(SemanticCategories),
                stats |-> [processed |-> 0, skipped |-> 0]]
      result(done) ==
        [tokens |-> Tree(done.semantic),
         stats |-> done.stats,
         keyOrderMap |->
           [c \in {x \in Range(SemanticCategories) : ObjSize(done.semantic.at[<<x>>]) > 0} |->
              StableSort(SemanticKeyCompare, ObjKeys(done.semantic.at[<<c>>]))]]
  IN result(FoldSeq(SemanticStyleStep, start, doc.styles))

(* ---------------------------------------------------------------------- *)
(* Foundation typography                                                  *)
(* ---------------------------------------------------------------------- *)

weightMap(normalizedWeight) ==
  CASE normalizedWeight = <<"light">> -> 300
    [] normalizedWeight = <<"regular">> -> 400
    [] normalizedWeight \in {<<"semibold">>, <<"semi", "bold">>} -> 600
    [] normalizedWeight = <<"bold">> -> 700
    [] OTHER -> 0

TypographyStep(typo, variable) ==
  LET fontStack(value, parsedStack) ==
        IF Len(parsedStack) = 1
          THEN (IF value = <<"mono">> \/ value = <<"code">>
                  THEN Append(parsedStack, <<"monospace">>)
                  ELSE Append(parsedStack, <<"sans", "-", "serif">>))
          ELSE parsedStack
      weightFromString(value, trimmedValue) ==
        LET notSpace(t) == t # " "
            named(numericWeight) ==
              IF numericWeight # 0
                THEN ObjSet2(typo, <<"fontWeight">>, value, Token("fontWeight", Num(numericWeight)))
                ELSE typo
            numbered(parsedNumber) ==
              IF parsedNumber >= 100 /\ parsedNumber <= 900
                THEN ObjSet2(typo, <<"fontWeight">>, value, Token("fontWeight", Num(parsedNumber)))
                ELSE named(weightMap(LowerAll(SelectSeq(trimmedValue, notSpace))))
        IN numbered(IF trimmedValue # <<>> /\ IsDigits(trimmedValue[1])
                      THEN DigitVal(trimmedValue[1]) ELSE 0)
      add(property, value, varValue) ==
        LET set(type) == ObjSet2(typo, <<property>>, value, Token(type, varValue)) IN
        IF property = "fontFamily" THEN
          IF IsStr(varValue)
            THEN ObjSet2(typo, <<"fontFamily">>, value,
                         Token("fontFamily", Arr(fontStack(value, parseFontFamily(varValue.str)))))
            ELSE typo
        ELSE IF property = "fontSize" THEN
          IF IsNum(varValue) THEN set("dimension") ELSE typo
        ELSE IF property = "fontWeight" THEN
          IF IsNum(varValue) THEN set("fontWeight")
          ELSE IF IsStr(varValue) THEN weightFromString(value, Trim(varValue.str))
          ELSE typo
        ELSE IF property = "lineHeight" THEN
          IF IsNum(varValue) /\ ~ObjHas(typo.at[<<"lineHeight">>], value)
            THEN set("dimension") ELSE typo
        ELSE IF property = "letterSpacing" THEN
          IF IsNum(varValue) THEN set("dimension") ELSE typo
        ELSE typo
      step(parsed) ==
        IF parsed = Null THEN typo
        ELSE add(parsed.property, parsed.value, FirstModeValue(variable))
  IN step(parseTypographyVariableName(variable.name))

\* Rebuild group o with its keys sorted by cmp.
SortedGroup(o, cmp(_, _)) == ObjFrom(StableSort(cmp, ObjKeys(o)), o.at)

buildFoundationTypographyTokens(variables) ==
  LET byKey(a, b) == DigitVal(a[1]) - DigitVal(b[1])
      sorted(p, o) ==
        LET byValue(a, b) == o.at[a].value.num - o.at[b].value.num IN
        IF ObjSize(o) = 0 \/ p = "fontFamily" THEN o
        ELSE IF p \in {"fontSize", "lineHeight"} THEN SortedGroup(o, byKey)
        ELSE SortedGroup(o, byValue)
      tree(built) ==
        Tree([order |-> built.order,
              at |-> [k \in Range(built.order) |-> sorted(k[1], built.at[k])]])
  IN tree(FoldSeq(TypographyStep, EmptyGroups(TypographyProperties), variables))

(* ---------------------------------------------------------------------- *)
(* extractAllTokens                                                       *)
(* ---------------------------------------------------------------------- *)

\* A colour loop that emits a reference for a foundation colour storing an alias.
ColorStep_Refs(doc, acc, variable) ==
  LET foundation(parsed, value) ==
        IF parsed = Null THEN [acc EXCEPT !.stats = Skipped(@, "foundationColors")]
        ELSE IF IsRgba(value) THEN
          [acc EXCEPT
             !.foundationColor = ObjSet2(@, <<parsed.family>>, <<parsed.shade>>,
                                         Token("color", Str(rgbToHex(value.rgba)))),
             !.stats = Processed(@, "foundationColors")]
        ELSE IF IsAlias(value) /\ getVariableById(doc, value.alias) # Null THEN
          [acc EXCEPT
             !.foundationColor =
               ObjSet2(@, <<parsed.family>>, <<parsed.shade>>,
                       Token("color", Str(buildReference(getVariableById(doc, value.alias).name)))),
             !.stats = Processed(@, "foundationColors")]
        ELSE acc
      attach(color, tokenValue) ==
        [acc EXCEPT !.semanticAttachment = ObjSet(@, <<color>>, Token("color", Str(tokenValue))),
                    !.stats = Processed(@, "semanticAttachment")]
      aliased(color, aliasedVariable) ==
        IF aliasedVariable # Null THEN attach(color, buildReference(aliasedVariable.name))
        ELSE [acc EXCEPT !.stats = Skipped(@, "semanticAttachment")]
      attachment(parsed, value) ==
        IF parsed = Null THEN [acc EXCEPT !.stats = Skipped(@, "semanticAttachment")]
        ELSE IF IsAlias(value) THEN aliased(parsed.color, getVariableById(doc, value.alias))
        ELSE IF IsRgba(value) THEN attach(parsed.color, rgbToHex(value.rgba))
        ELSE [acc EXCEPT !.stats = Skipped(@, "semanticAttachment")]
      step(category) ==
        IF category = Null THEN [acc EXCEPT !.stats = TotalSkipped(@)]
        ELSE IF category.type = "foundation-color"
          THEN foundation(parseFoundationColorName(variable.name), FirstModeValue(variable))
        ELSE IF category.type = "semantic-attachment"
          THEN attachment(parseSemanticAttachmentName(variable.name), FirstModeValue(variable))
        ELSE acc
  IN step(categorizeVariable(variable.name, "COLOR"))

ColorStep(doc, acc, variable) ==
  LET foundation(parsed, value) ==
        IF parsed = Null THEN [acc EXCEPT !.stats = Skipped(@, "foundationColors")]
        ELSE IF IsRgba(value) THEN
          [acc EXCEPT
             !.foundationColor = ObjSet2(@, <<parsed.family>>, <<parsed.shade>>,
                                         Token("color", Str(rgbToHex(value.rgba)))),
             !.stats = Processed(@, "foundationColors")]
        ELSE acc
      attach(color, tokenValue) ==
        [acc EXCEPT !.semanticAttachment = ObjSet(@, <<color>>, Token("color", Str(tokenValue))),
                    !.stats = Processed(@, "semanticAttachment")]
      aliased(color, aliasedVariable) ==
        IF aliasedVariable # Null THEN attach(color, buildReference(aliasedVariable.name))
        ELSE [acc EXCEPT !.stats = Skipped(@, "semanticAttachment")]
      attachment(parsed, value) ==
        IF parsed = Null THEN [acc EXCEPT !.stats = Skipped(@, "semanticAttachment")]
        ELSE IF IsAlias(value) THEN aliased(parsed.color, getVariableById(doc, value.alias))
        ELSE IF IsRgba(value) THEN attach(parsed.color, rgbToHex(value.rgba))
        ELSE [acc EXCEPT !.stats = Skipped(@, "semanticAttachment")]
      step(category) ==
        IF category = Null THEN [acc EXCEPT !.stats = TotalSkipped(@)]
        ELSE IF category.type = "foundation-color"
          THEN foundation(parseFoundationColorName(variable.name), FirstModeValue(variable))
        ELSE IF category.type = "semantic-attachment"
          THEN attachment(parseSemanticAttachmentName(variable.name), FirstModeValue(variable))
        ELSE acc
  IN step(categorizeVariable(variable.name, "COLOR"))

FloatStep(acc, variable) ==
  LET radius(parsed, value) ==
        IF parsed = Null THEN [acc EXCEPT !.stats = Skipped(@, "foundationRadius")]
        ELSE IF IsNum(value) \/ IsStr(value) THEN
          [acc EXCEPT !.foundationRadius = ObjSet(@, <<parsed.size>>, Token("dimension", value)),
                      !.stats = Processed(@, "foundationRadius")]
        ELSE [acc EXCEPT !.stats = Skipped(@, "foundationRadius")]
      spacing(parsed, value) ==
        IF parsed = Null THEN [acc EXCEPT !.stats = Skipped(@, "foundationSpacing")]
        ELSE IF IsNum(value) THEN
          [acc EXCEPT !.foundationSpacing = ObjSet(@, <<parsed.size>>, Token("dimension", value)),
                      !.stats = Processed(@, "foundationSpacing")]
        ELSE [acc EXCEPT !.stats = Skipped(@, "foundationSpacing")]
      step(category) ==
        IF category = Null THEN [acc EXCEPT !.stats = TotalSkipped(@)]
        ELSE IF category.type = "foundation-radius"
          THEN radius(parseFoundationRadiusName(variable.name), FirstModeValue(variable))
        ELSE IF category.type = "foundation-spacing"
          THEN spacing(parseFoundationSpacingName(variable.name), FirstModeValue(variable))
        ELSE acc
  IN step(categorizeVariable(variable.name, "FLOAT"))

\* The members of o whose key is in sizes, in the order of sizes.
PickInOrder(o, sizes) ==
  LET present(size) == ObjHas(o, <<size>>)
      pick(kept) == ObjFrom([i \in DOMAIN kept |-> <<kept[i]>>], o.at)
  IN pick(SelectSeq(sizes, present))

\* A sort that adds no full token.
SortRadius_NoFull(radius) ==
  IF ObjSize(radius) > 0 THEN PickInOrder(radius, RadiusSizes) ELSE radius

\* Sort the radius tokens and add the full token when radius tokens exist.
SortRadius(radius) ==
  LET withFull(sortedRadius) ==
        IF ~ObjHas(sortedRadius, <<"full">>)
          THEN ObjSet(sortedRadius, <<"full">>,
                      [type |-> "dimension", value |-> Str(<<"50", "%">>),
                       description |-> FULL_DESCRIPTION])
          ELSE sortedRadius
  IN IF ObjSize(radius) > 0 THEN withFull(PickInOrder(radius, RadiusSizes)) ELSE radius

SortSpacing(spacing) ==
  IF ObjSize(spacing) > 0 THEN PickInOrder(spacing, SpacingSizes) ELSE spacing

\* One variable of a typography collection loop; otherwise says what a variable
\* outside the typography categories does to the counters.
TypographyCollect(acc, variable, resolvedType, otherwise(_)) ==
  LET step(category) ==
        IF category # Null /\ category.type = "typography-foundation"
          THEN [acc EXCEPT !.typographyVariables = Append(@, variable),
                           !.stats = Processed(@, "foundationTypography")]
          ELSE [acc EXCEPT !.stats = otherwise(@)]
  IN step(categorizeVariable(variable.name, resolvedType))

extractAllTokens(doc) ==
  LET start == [foundationColor |-> EmptyObj, semanticAttachment |-> EmptyObj,
                foundationRadius |-> EmptyObj, foundationSpacing |-> EmptyObj,
                typographyVariables |-> <<>>, stats |-> ZeroStats]
      colorStep(acc, v) == ColorStep(doc, acc, v)
      same(s) == s
      stringStep(acc, v) == TypographyCollect(acc, v, "STRING", TotalSkipped)
      floatStep(acc, v) == TypographyCollect(acc, v, "FLOAT", same)
      floats(acc, floatVariables) ==
        FoldSeq(floatStep,
                FoldSeq(stringStep, FoldSeq(FloatStep, acc, floatVariables),
                        getLocalVariables(doc, "STRING")),
                floatVariables)
      result(collected, semantic) ==
        [tokens |->
           (TOKEN_FILES.FOUNDATION_COLOR :> Tree(collected.foundationColor))
           @@ (TOKEN_FILES.SEMANTIC_ATTACHMENT :> Tree(collected.semanticAttachment))
           @@ (TOKEN_FILES.FOUNDATION_RADIUS :> Tree(SortRadius(collected.foundationRadius)))
           @@ (TOKEN_FILES.FOUNDATION_SPACING :> Tree(SortSpacing(collected.foundationSpacing)))
           @@ (TOKEN_FILES.TYPOGRAPHY_FOUNDATION :>
                 buildFoundationTypographyTokens(collected.typographyVariables))
           @@ (TOKEN_FILES.TYPOGRAPHY_SEMANTIC :> semantic.tokens),
         stats |-> [collected.stats EXCEPT
                      !["semanticTypography"] = semantic.stats,
                      !["total"].processed = @ + semantic.stats.processed,
                      !["total"].skipped = @ + semantic.stats.skipped],
         keyOrderMaps |-> semantic.keyOrderMap]
  IN result(floats(FoldSeq(colorStep, start, getLocalVariables(doc, "COLOR")),
                   getLocalVariables(doc, "FLOAT")),
            extractSemanticTypographyTokens(doc))

(* ---------------------------------------------------------------------- *)
(* extractThemeTokens and sortThemeTokens                                 *)
(* ---------------------------------------------------------------------- *)

IsThemeCollection(collection) ==
  \E i \in DOMAIN collection.modes : collection.modes[i].name \in Range(ThemeNames)

\* One mode of one theme variable.
ThemeModeStep(doc, variable, acc, mode) ==
  LET skip == [acc EXCEPT !.stats.skipped = @ + 1]
      add(tokenValue) ==
        [acc EXCEPT !.tokens[THEME_MODE_TO_FILE[mode.name]].body =
                      ObjSet(@, variable.name, Token("color", Str(tokenValue))),
                    !.stats.processed = @ + 1]
      aliased(aliasedVariable) ==
        IF aliasedVariable # Null
          THEN (IF HasOpacitySuffix(aliasedVariable.name) THEN skip
                ELSE add(buildReference(aliasedVariable.name)))
          ELSE skip
      step(value) ==
        IF value = Undefined THEN acc
        ELSE IF IsAlias(value) THEN aliased(getVariableById(doc, value.alias))
        ELSE IF IsRgba(value) THEN
          (IF value.rgba.a < 1000 THEN skip ELSE add(rgbToHex(value.rgba)))
        ELSE skip
  IN IF mode.name \notin DOMAIN THEME_MODE_TO_FILE THEN acc
     ELSE step(ValueInMode(variable, mode.modeId))

ThemeVariableStep(doc, acc, variable) ==
  LET modeStep(a, mode) == ThemeModeStep(doc, variable, a, mode)
      step(collection) ==
        IF collection = Null \/ ~IsThemeCollection(collection) THEN acc
        ELSE IF HasOpacitySuffix(variable.name) THEN acc
        ELSE FoldSeq(modeStep, acc, collection.modes)
  IN step(getVariableCollectionById(variable.variableCollectionId))

extractThemeTokens(doc) ==
  LET start == [tokens |-> [f \in ThemeFiles |-> Tree(EmptyObj)],
                stats |-> [processed |-> 0, skipped |-> 0]]
      step(acc, v) == ThemeVariableStep(doc, acc, v)
      themed(colorVariables) ==
        IF \E c \in Collections :
             /\ IsThemeCollection(c)
             /\ \E i \in DOMAIN colorVariables : colorVariables[i].variableCollectionId = c.id
          THEN FoldSeq(step, start, colorVariables)
          ELSE [tokens |-> <<>>, stats |-> [processed |-> 0, skipped |-> 0]]
  IN themed(getLocalVariables(doc, "COLOR"))

\* The object under the root path of a tree, or {} when the path is missing.
Body(tree) == IF tree.root THEN tree.body ELSE EmptyObj

\* Code-unit order of the lexemes that occur in theme variable names.
CodeUnitOrder == <<"-", "16", "bg", "button", "sidebar">>

LexemeRank(w) == CHOOSE i \in DOMAIN CodeUnitOrder : CodeUnitOrder[i] = w

\* The default comparator of Array.prototype.sort (string order).
RECURSIVE StringCompare(_, _)
StringCompare(a, b) ==
  IF a = <<>> /\ b = <<>> THEN 0
  ELSE IF a = <<>> THEN -1
  ELSE IF b = <<>> THEN 1
  ELSE IF a[1] = b[1] THEN StringCompare(Tail(a), Tail(b))
  ELSE LexemeRank(a[1]) - LexemeRank(b[1])

sortThemeTokens(newTokens, currentTokens, themeName) ==
  LET sorted(newKeys, currentOrder) ==
        LET inNew(key) == key \in Range(newKeys)
            notCurrent(key) == key \notin Range(currentOrder)
        IN SelectSeq(currentOrder, inNew)
           \o StableSort(StringCompare, SelectSeq(newKeys, notCurrent))
  IN [newTokens EXCEPT
        !.root = TRUE,
        !.body = ObjFrom(sorted(ObjKeys(newTokens.body), ObjKeys(Body(currentTokens))),
                         newTokens.body.at)]

(* ---------------------------------------------------------------------- *)
(* Validation                                                             *)
(* ---------------------------------------------------------------------- *)

\* An error or warning message: the fixed text and the names interpolated into it.
Message(text, names) == [text |-> text, names |-> names]

NoFindings == [errors |-> <<>>, warnings |-> <<>>]

Error(acc, cond, text, names) ==
  IF cond THEN [acc EXCEPT !.errors = Append(@, Message(text, names))] ELSE acc

\* A finding that blocks where the code only warns.
Warning_AsError(acc, cond, text, names) == Error(acc, cond, text, names)

Warning(acc, cond, text, names) ==
  IF cond THEN [acc EXCEPT !.warnings = Append(@, Message(text, names))] ELSE acc

\* A validation result that never blocks.
Result_Lenient(acc) == [valid |-> TRUE, errors |-> acc.errors, warnings |-> acc.warnings]

Result(acc) == [valid |-> acc.errors = <<>>, errors |-> acc.errors, warnings |-> acc.warnings]

TokenType(token) == IF "type" \in DOMAIN token THEN token.type ELSE ""
TokenValue(token) == IF "value" \in DOMAIN token THEN token.value ELSE Undefined

\* !x for the values a token can hold.
Falsy(v) == v = Undefined \/ v = Num(0) \/ v = Str(<<>>)

UpperHex == {"0", "1", "2", "3", "4", "5", "6", "7", "8", "9", "A", "B", "C", "D", "E", "F"}
LowerHex == {"a", "b", "c", "d", "e", "f"}

\* A pattern that takes lowercase digits too.
hexPattern_AnyCase(v) ==
  IsStr(v) /\ Len(v.str) = 7 /\ v.str[1] = "#"
    /\ \A i \in 2..7 : v.str[i] \in UpperHex \cup LowerHex

\* /^#[0-9A-F]{6}$/.test(value): a non-string is converted to a string first.
hexPattern(v) ==
  IsStr(v) /\ Len(v.str) = 7 /\ v.str[1] = "#" /\ \A i \in 2..7 : v.str[i] \in UpperHex

\* /^#[0-9A-F]{6}$/i
hexPatternIgnoreCase(v) ==
  IsStr(v) /\ Len(v.str) = 7 /\ v.str[1] = "#"
    /\ \A i \in 2..7 : v.str[i] \in UpperHex \cup LowerHex

\* shade.match(/[-]\d+$/)
\* A key check that finds no opacity variant.
OpacityKey_Never(key) == FALSE

OpacityKey(key) == Len(key) >= 2 /\ key[Len(key) - 1] = "-" /\ IsDigits(key[Len(key)])

validateFoundationTokens(tokens) ==
  LET a0 == Warning(NoFindings, ~tokens.schema, "Foundation colors: Missing $schema field", <<>>)
      foundation == tokens.body
      shadeStep(family, shades, acc, shade) ==
        LET token == shades.at[shade]
            a1 == Error(acc, TokenType(token) # "color",
                        "Foundation: Invalid or missing $type", <<family, shade>>)
            a2 == IF Falsy(TokenValue(token))
                    THEN Error(a1, TRUE, "Foundation: Missing $value", <<family, shade>>)
                    ELSE Error(a1, ~hexPattern(TokenValue(token)),
                               "Foundation: Invalid HEX format", <<family, shade>>)
        IN Error(a2, OpacityKey(shade),
                 "Foundation: Opacity variants not allowed in source tokens",
                 <<family, shade>>)
      familyStep(acc, family) ==
        LET shades == foundation.at[family]
            step(a, shade) == shadeStep(family, shades, a, shade)
        IN FoldSeq(step, acc, ObjKeys(shades))
  IN IF ~tokens.root
       THEN [valid |-> FALSE,
             errors |-> <<Message("Foundation colors: Invalid token structure", <<>>)>>,
             warnings |-> a0.warnings]
       ELSE Result(FoldSeq(familyStep, a0, ObjKeys(foundation)))

validateSemanticTokens(tokens) ==
  LET a0 == Warning(NoFindings, ~tokens.schema, "Semantic tokens: Missing $schema field", <<>>)
      attachment == tokens.body
      step(acc, colorName) ==
        LET token == attachment.at[colorName]
            value == TokenValue(token)
            isReference == IsStr(value) /\ value.str # <<>> /\ value.str[1] = "{"
                             /\ value.str[Len(value.str)] = "}"
            isHex == hexPatternIgnoreCase(value)
            a1 == Error(acc, TokenType(token) # "color",
                        "Semantic attachment: Invalid or missing $type", <<colorName>>)
        IN IF Falsy(value)
             THEN Error(a1, TRUE, "Semantic attachment: Missing $value", <<colorName>>)
             ELSE Warning(Error(a1, ~isReference /\ ~isHex,
                                "Semantic attachment: Value must be either a reference or a HEX color",
                                <<colorName>>),
                          isHex,
                          "Semantic attachment: Using direct HEX value instead of reference",
                          <<colorName>>)
  IN IF ~tokens.root
       THEN [valid |-> FALSE,
             errors |-> <<Message("Semantic tokens: Invalid token structure", <<>>)>>,
             warnings |-> a0.warnings]
       ELSE Result(FoldSeq(step, a0, ObjKeys(attachment)))

validateDimensionTokens(tokens, type, expectedSizes) ==
  LET a0 == Warning(NoFindings, ~tokens.schema, "Missing $schema field", <<<<type>>>>)
      foundation == tokens.body
      step(acc, size) ==
        LET token == foundation.at[size]
            value == TokenValue(token)
            isNumber == IsNum(value)
            isPercentage == IsStr(value) /\ value.str # <<>> /\ value.str[Len(value.str)] = "%"
            a1 == Error(acc, TokenType(token) # "dimension",
                        "Invalid or missing $type (expected dimension)", <<<<type>>, size>>)
        IN IF value = Undefined
             THEN Error(a1, TRUE, "Missing $value", <<<<type>>, size>>)
             ELSE Error(a1, ~isNumber /\ ~isPercentage,
                        "Value must be a number or percentage string", <<<<type>>, size>>)
      expected(acc, size) ==
        Warning(acc, ~ObjHas(foundation, <<size>>), "Missing expected size", <<<<type>>, <<size>>>>)
  IN IF ~tokens.root
       THEN [valid |-> FALSE,
             errors |-> <<Message("Invalid token structure", <<<<type>>>>)>>,
             warnings |-> a0.warnings]
       ELSE Result(FoldSeq(expected, FoldSeq(step, a0, ObjKeys(foundation)), expectedSizes))

validateRadiusTokens(tokens) == validateDimensionTokens(tokens, "Radius", RadiusSizes)

validateSpacingTokens(tokens) == validateDimensionTokens(tokens, "Spacing", SpacingSizes)

RequiredProps == <<"fontFamily", "fontSize", "fontWeight", "lineHeight", "letterSpacing">>

validateSemanticTypographyTokens(tokens) ==
  LET a0 == Warning(NoFindings, ~tokens.schema, "Semantic typography: Missing $schema field", <<>>)
      semantic == tokens.body
      categoryStep(acc, category) ==
        LET styles == ObjGet(semantic, <<category>>)
            step(a, name) ==
              LET token == styles.at[name]
                  a1 == Error(a, TokenType(token) # "typography",
                              "Semantic typography: Invalid or missing $type",
                              <<<<category>>, name>>)
                  prop(b, p) ==
                    Error(b, p \notin DOMAIN token.value \/ Falsy(token.value[p]),
                          "Semantic typography: Missing property in $value",
                          <<<<category>>, name, <<p>>>>)
              IN IF "value" \notin DOMAIN token
                   THEN Error(a1, TRUE, "Semantic typography: Missing $value",
                              <<<<category>>, name>>)
                   ELSE FoldSeq(prop, a1, RequiredProps)
        IN IF ObjHas(semantic, <<category>>) THEN FoldSeq(step, acc, ObjKeys(styles)) ELSE acc
  IN IF ~tokens.root
       THEN [valid |-> FALSE,
             errors |-> <<Message("Semantic typography: Invalid token structure", <<>>)>>,
             warnings |-> a0.warnings]
       ELSE Result(FoldSeq(categoryStep, a0, SemanticCategories))

validateTypographyTokens(tokens) ==
  LET a0 == Warning(NoFindings, ~tokens.schema, "Typography: Missing $schema field", <<>>)
      foundation == tokens.body
      valueRule(property, value) ==
        IF property = "fontFamily" THEN
          IF Falsy(value) THEN "Missing $value"
          ELSE IF ~IsArr(value) THEN "Value must be an array of strings"
          ELSE IF value.arr = <<>> THEN "Font family array cannot be empty"
          ELSE ""
        ELSE IF value = Undefined THEN "Missing $value"
        ELSE IF ~IsNum(value) THEN "Value must be a number"
        ELSE IF property \in {"fontSize", "lineHeight"} /\ value.num <= 0
          THEN "Value must be positive"
        ELSE IF property = "fontWeight" /\ (value.num < 100 \/ value.num > 900)
          THEN "Value must be between 100 and 900"
        ELSE ""
      expectedType(property) ==
        IF property = "fontFamily" THEN "fontFamily"
        ELSE IF property = "fontWeight" THEN "fontWeight" ELSE "dimension"
      propertyStep(acc, property) ==
        LET group == ObjGet(foundation, <<property>>)
            step(a, key) ==
              LET token == group.at[key]
                  a1 == Error(a, TokenType(token) # expectedType(property),
                              "Typography: Invalid or missing $type", <<<<property>>, key>>)
                  broken == valueRule(property, TokenValue(token))
              IN Error(a1, broken # "", broken, <<<<property>>, key>>)
        IN IF ObjHas(foundation, <<property>>) THEN FoldSeq(step, acc, ObjKeys(group)) ELSE acc
  IN IF ~tokens.root
       THEN [valid |-> FALSE,
             errors |-> <<Message("Typography: Invalid token structure", <<>>)>>,
             warnings |-> a0.warnings]
       ELSE Result(FoldSeq(propertyStep, a0, TypographyProperties))

validateAllTokens(tokensMap) ==
  LET add(acc, one) == [errors |-> acc.errors \o one.errors,
                        warnings |-> acc.warnings \o one.warnings]
      fileStep(acc, f) ==
        IF f \notin DOMAIN tokensMap THEN acc
        ELSE IF f = TOKEN_FILES.FOUNDATION_COLOR THEN add(acc, validateFoundationTokens(tokensMap[f]))
        ELSE IF f = TOKEN_FILES.SEMANTIC_ATTACHMENT THEN add(acc, validateSemanticTokens(tokensMap[f]))
        ELSE IF f = TOKEN_FILES.FOUNDATION_RADIUS THEN add(acc, validateRadiusTokens(tokensMap[f]))
        ELSE IF f = TOKEN_FILES.FOUNDATION_SPACING THEN add(acc, validateSpacingTokens(tokensMap[f]))
        ELSE IF f = TOKEN_FILES.TYPOGRAPHY_FOUNDATION THEN add(acc, validateTypographyTokens(tokensMap[f]))
        ELSE IF f = TOKEN_FILES.TYPOGRAPHY_SEMANTIC
          THEN add(acc, validateSemanticTypographyTokens(tokensMap[f]))
        ELSE Error(acc, ~tokensMap[f].root, "Theme: Invalid token structure", <<<<ThemeOf(f)>>>>)
  IN Result(FoldSeq(fileStep, NoFindings, FileOrder))

(* ---------------------------------------------------------------------- *)
(* Ordered serializer                                                     *)
(* ---------------------------------------------------------------------- *)

IsObj(x) == "order" \in DOMAIN x

\* The text of an object: its members in the order they are written.  keys is the
\* list registered for the object in keyOrder, or Object.keys(value).
RenderWith(o, keys) ==
  [order |-> keys, at |-> [k \in Range(keys) |-> IF ObjHas(o, k) THEN o.at[k] ELSE Null]]

\* JSON.parse of a rendered object: members enter in the order of the text.
ParseObject(text) == ObjFrom(text.order, text.at)

\* stringifyPreservingOrder without the lookup of the registered key order.
stringifyPreservingOrder_Natural(filePath, tree, keyOrderMap) ==
  LET member(k) ==
        LET value == tree.body.at[k] IN
        IF ~IsObj(value) THEN value ELSE RenderWith(value, ObjKeys(value))
  IN [schema |-> tree.schema, root |-> tree.root,
      body |-> [order |-> ObjKeys(tree.body),
                at |-> [k \in Range(ObjKeys(tree.body)) |-> member(k)]]]

\* stringifyPreservingOrder(tokensMap[filePath], 2, keyOrderMaps?.[filePath]);
\* keyOrderMap is the map registered for the semantic typography tree.
stringifyPreservingOrder(filePath, tree, keyOrderMap) ==
  LET registered(k) == filePath = TOKEN_FILES.TYPOGRAPHY_SEMANTIC /\ k[1] \in DOMAIN keyOrderMap
      member(k) ==
        LET value == tree.body.at[k] IN
        IF ~IsObj(value) THEN value
        ELSE IF registered(k) THEN RenderWith(value, keyOrderMap[k[1]])
        ELSE RenderWith(value, ObjKeys(value))
  IN [schema |-> tree.schema, root |-> tree.root,
      body |-> [order |-> ObjKeys(tree.body),
                at |-> [k \in Range(ObjKeys(tree.body)) |-> member(k)]]]

\* JSON.parse(content) of a published file.
ParseFile(text) ==
  LET member(k) == IF IsObj(text.body.at[k]) THEN ParseObject(text.body.at[k])
                   ELSE text.body.at[k]
  IN [schema |-> text.schema, root |-> text.root,
      body |-> ObjFrom(text.body.order, [k \in Range(text.body.order) |-> member(k)])]

(* ---------------------------------------------------------------------- *)
(* Remote repository                                                      *)
(* ---------------------------------------------------------------------- *)

\* A file the repository does not have, and a file whose content is not JSON.
Missing == [missing |-> TRUE]
Garbage == [garbage |-> TRUE]

\* The response to GET /contents/{filePath}: status and body, or a rejected fetch.
ContentResponse(net, repo, filePath) ==
  IF net = "down" THEN [rejected |-> TRUE]
  ELSE IF net = "denied" THEN [status |-> 401, ok |-> FALSE]
  ELSE IF repo[filePath] = Missing THEN [status |-> 404, ok |-> FALSE]
  ELSE [status |-> 200, ok |-> TRUE, text |-> repo[filePath]]

\* fetchCurrentTokensFromFile: the parsed content, or the error it throws.
fetchCurrentTokensFromFile(net, repo, filePath) ==
  LET response == ContentResponse(net, repo, filePath) IN
  IF "rejected" \in DOMAIN response THEN [threw |-> "network"]
  ELSE IF ~response.ok THEN [threw |-> "status", status |-> response.status]
  ELSE IF response.text = Garbage THEN [threw |-> "syntax"]
  ELSE [value |-> ParseFile(response.text)]

\* A substitute without the root path of the file.
EmptySkeleton_Rootless(filePath) == [schema |-> FALSE, root |-> FALSE, body |-> EmptyObj]

\* The tree fetchAllCurrentTokens substitutes in its catch block.
EmptySkeleton(filePath) ==
  IF filePath = TOKEN_FILES.TYPOGRAPHY_FOUNDATION
    THEN [schema |-> FALSE, root |-> TRUE, body |-> EmptyGroups(TypographyProperties)]
  ELSE IF filePath = TOKEN_FILES.TYPOGRAPHY_SEMANTIC
    THEN [schema |-> FALSE, root |-> TRUE, body |-> EmptyGroups(SemanticCategories)]
  ELSE [schema |-> FALSE, root |-> TRUE, body |-> EmptyObj]

\* One try/catch of fetchAllCurrentTokens, got being what the read returned or threw.
FetchOrSkeleton(filePath, got) ==
  IF "threw" \in DOMAIN got THEN EmptySkeleton(filePath) ELSE got.value

(* ---------------------------------------------------------------------- *)
(* Change detection                                                       *)
(* ---------------------------------------------------------------------- *)

\* obj[key] ? obj[key].$value : undefined
ValueAt(o, k) == IF ObjHas(o, k) THEN TokenValue(o.at[k]) ELSE Undefined

\* obj[key] || {}
GroupAt(o, k) == IF ObjHas(o, k) THEN o.at[k] ELSE EmptyObj

AllKeys(a, b) == Range(ObjKeys(a)) \cup Range(ObjKeys(b))

\* A comparison that flags any level that has a key.
FlatChanges_Any(newVars, currentVars) == AllKeys(newVars, currentVars) # {}

\* One level of tokens compared by $value.
FlatChanges(newVars, currentVars) ==
  \E k \in AllKeys(newVars, currentVars) : ValueAt(newVars, k) # ValueAt(currentVars, k)

hasFoundationColorChanges(newTokens, currentTokens) ==
  LET newColors == Body(newTokens)
      currentColors == Body(currentTokens)
  IN \E family \in AllKeys(newColors, currentColors) :
       FlatChanges(GroupAt(newColors, family), GroupAt(currentColors, family))

hasSemanticAttachmentChanges(newTokens, currentTokens) ==
  FlatChanges(Body(newTokens), Body(currentTokens))

hasFoundationRadiusChanges(newTokens, currentTokens) ==
  FlatChanges(Body(newTokens), Body(currentTokens))

ComparedSemanticCategories == <<"heading", "body">>

hasSemanticTypographyChanges(newTokens, currentTokens) ==
  LET newSemantic == Body(newTokens)
      currentSemantic == Body(currentTokens)
  IN \E i \in DOMAIN ComparedSemanticCategories :
       LET category == <<ComparedSemanticCategories[i]>>
           newCat == GroupAt(newSemantic, category)
           currentCat == GroupAt(currentSemantic, category)
       IN \E name \in AllKeys(newCat, currentCat) : ObjGet(newCat, name) # ObjGet(currentCat, name)

hasTypographyChanges(newTokens, currentTokens) ==
  LET newTypo == Body(newTokens)
      currentTypo == Body(currentTokens)
  IN \E i \in DOMAIN TypographyProperties :
       LET property == <<TypographyProperties[i]>>
       IN FlatChanges(GroupAt(newTypo, property), GroupAt(currentTypo, property))

\* Whether detectChanges flags filePath.
FileChanged(filePath, newTokensMap, currentTokensMap) ==
  IF filePath \notin DOMAIN newTokensMap THEN FALSE
  ELSE
    LET newTokens == newTokensMap[filePath]
        currentTokens == currentTokensMap[filePath]
    IN
    IF filePath = TOKEN_FILES.FOUNDATION_COLOR THEN
      ObjSize(newTokens.body) > 0 /\ hasFoundationColorChanges(newTokens, currentTokens)
    ELSE IF filePath = TOKEN_FILES.SEMANTIC_ATTACHMENT THEN
      ObjSize(newTokens.body) > 0 /\ hasSemanticAttachmentChanges(newTokens, currentTokens)
    ELSE IF filePath = TOKEN_FILES.FOUNDATION_RADIUS THEN
      ObjSize(newTokens.body) > 0 /\ hasFoundationRadiusChanges(newTokens, currentTokens)
    ELSE IF filePath = TOKEN_FILES.FOUNDATION_SPACING THEN
      ObjSize(newTokens.body) > 0 /\ FlatChanges(Body(newTokens), Body(currentTokens))
    ELSE IF filePath = TOKEN_FILES.TYPOGRAPHY_FOUNDATION THEN
      LET hasTypoTokens ==
            newTokens.root /\ \E i \in DOMAIN TypographyProperties :
              ObjSize(GroupAt(newTokens.body, <<TypographyProperties[i]>>)) > 0
      IN hasTypoTokens /\ hasTypographyChanges(newTokens, currentTokens)
    ELSE IF filePath = TOKEN_FILES.TYPOGRAPHY_SEMANTIC THEN
      LET hasSemanticTypoTokens ==
            newTokens.root /\ \E i \in DOMAIN ComparedSemanticCategories :
              ObjSize(GroupAt(newTokens.body, <<ComparedSemanticCategories[i]>>)) > 0
      IN hasSemanticTypoTokens /\ hasSemanticTypographyChanges(newTokens, currentTokens)
    ELSE FlatChanges(Body(newTokens), Body(currentTokens))

\* A detector that always reports changes.
detectChanges_Always(newTokensMap, currentTokensMap) ==
  LET changed(f) == FileChanged(f, newTokensMap, currentTokensMap)
  IN [hasChanges |-> TRUE, changedFiles |-> SelectSeq(FileOrder, changed)]

detectChanges(newTokensMap, currentTokensMap) ==
  LET changed(f) == FileChanged(f, newTokensMap, currentTokensMap)
      result(changedFiles) == [hasChanges |-> Len(changedFiles) > 0, changedFiles |-> changedFiles]
  IN result(SelectSeq(FileOrder, changed))

\* A request that sends every extracted file.
triggerGitHubSync_All(tokensMap, changedFiles, keyOrderMaps) ==
  [op |-> "dispatch",
   files |-> [f \in DOMAIN tokensMap |-> stringifyPreservingOrder(f, tokensMap[f], keyOrderMaps)]]

\* The request triggerGitHubSync posts: client_payload.files holds the text of
\* each changed file.
triggerGitHubSync(tokensMap, changedFiles, keyOrderMaps) ==
  [op |-> "dispatch",
   files |-> [f \in Range(changedFiles) |->
                stringifyPreservingOrder(f, tokensMap[f], keyOrderMaps)]]

(* ---------------------------------------------------------------------- *)
(* Documents and repositories                                             *)
(* ---------------------------------------------------------------------- *)

MaxVars == 2
MaxStyles == 1
MaxSyncs == 2

OneMode(value) == <<[modeId |-> "p0", value |-> value]>>
TwoModes(denim, onyx) == <<[modeId |-> "t0", value |-> denim], [modeId |-> "t1", value |-> onyx]>>

Pixels(value) == [unit |-> "PIXELS", value |-> value]

\* Variables a document may hold.
VariableLibrary ==
  << Variable("v1", <<"blue", "/", "500">>, "COLOR", "primitives",
              OneMode(Rgba(110, 345, 851, 1000))),
     Variable("v2", <<"attachment", "/", "blue">>, "COLOR", "primitives", OneMode(Alias("v1"))),
     Variable("v3", <<"radius", "-", "m">>, "FLOAT", "primitives", OneMode(Num(8))),
     Variable("v4", <<"font", "/", "size", "/", "100">>, "FLOAT", "primitives", OneMode(Num(0))),
     Variable("v5", <<"sidebar", "-", "bg">>, "COLOR", "themes",
              TwoModes(Rgba(110, 345, 851, 1000), Rgba(0, 0, 0, 500))) >>

\* Text styles a document may hold.
StyleLibrary ==
  << [name |-> <<"Code", " ", "100">>, letterSpacing |-> Pixels(0)],
     [name |-> <<"Heading", " ", "100">>, letterSpacing |-> Pixels(0)] >>

Pick(library, chosen) ==
  LET present(i) == i \in chosen
      numbered == [i \in DOMAIN library |-> i]
      pick(kept) == [i \in DOMAIN kept |-> library[kept[i]]]
  IN pick(SelectSeq(numbered, present))

Documents ==
  {[vars |-> Pick(VariableLibrary, vs), styles |-> Pick(StyleLibrary, ss)] :
     vs \in {x \in SUBSET DOMAIN VariableLibrary : Cardinality(x) <= MaxVars},
     ss \in {x \in SUBSET DOMAIN StyleLibrary : Cardinality(x) <= MaxStyles}}

\* The text of a token file with a one-level body.
FileText(keys, tokens) ==
  [schema |-> TRUE, root |-> TRUE, body |-> [order |-> keys, at |-> tokens]]

\* The text of a colour file holding blue/500.
ColorText(hex) ==
  FileText(<< <<"blue">> >>,
           <<"blue">> :> [order |-> << <<"500">> >>, at |-> <<"500">> :> Token("color", Str(hex))])

\* The text of a theme file holding sidebar-bg.
ThemeText(hex) ==
  FileText(<< <<"sidebar", "-", "bg">> >>, <<"sidebar", "-", "bg">> :> Token("color", Str(hex)))

EmptyRepository == [f \in Files |-> Missing]

\* A repository last written from an earlier state of the document; its radius
\* file is not JSON.
EarlierRepository ==
  (TOKEN_FILES.FOUNDATION_COLOR :> ColorText(<<"#", "1", "C", "5", "8", "D", "7">>))
  @@ (TOKEN_FILES.FOUNDATION_RADIUS :> Garbage)
  @@ (TOKEN_FILES.THEME_DENIM :> ThemeText(<<"#", "1", "C", "5", "8", "D", "9">>))
  @@ (TOKEN_FILES.THEME_ONYX :> ThemeText(<<"#", "1", "C", "5", "8", "D", "7">>))
  @@ EmptyRepository

Repositories == {EmptyRepository, EarlierRepository}

NetStates == {"ok", "down", "denied"}

\* Object.assign(tokensMap, themeTokensMap)
MergeTokens(tokensMap, themeTokensMap) == themeTokensMap @@ tokensMap

\* The loop over THEME_MODE_TO_FILE that reorders each theme tree.
SortThemes(tokensMap, currentTokensMap) ==
  [f \in DOMAIN tokensMap |->
     IF f \in ThemeFiles /\ f \in DOMAIN currentTokensMap
       THEN sortThemeTokens(tokensMap[f], currentTokensMap[f], ThemeOf(f))
       ELSE tokensMap[f]]

(* ---------------------------------------------------------------------- *)
(* Plugin state                                                           *)
(* ---------------------------------------------------------------------- *)

VARIABLES
  figma,             \* the document: local variables and text styles
  repo,              \* the repository: the text of each token file
  net,               \* how the content endpoint answers
  outbox,            \* files of an accepted dispatch not yet written to the repository
  clientStorage,     \* figma.clientStorage: 'github-token' and 'last-sync'
  pc,                \* where the message handler is suspended
  githubToken,       \* locals of the running handler
  tokensMap,
  stats,
  keyOrderMaps,
  validation,
  currentTokensMap,
  changeDetection,
  posted,            \* messages posted to the UI by the current handler
  calls,             \* requests the current handler has made
  input,             \* arguments of a function applied on its own
  output,            \* what the function returned
  suspended          \* a second handler, waiting at an await while this one runs

vars == <<figma, repo, net, outbox, clientStorage, pc, githubToken, tokensMap, stats,
          keyOrderMaps, validation, currentTokensMap, changeDetection, posted, calls,
          input, output, suspended>>

env == <<figma, repo, net, outbox>>
locals == <<githubToken, tokensMap, stats, keyOrderMaps, validation, currentTokensMap,
            changeDetection>>

Call(op) == [op |-> op]
StorageCall(op, key) == [op |-> op, key |-> key]
\* getLocalVariablesAsync, with the document it returned.
VariablesCall(got) == [op |-> "variables", got |-> got]
ContentCall(path, outcome) == [op |-> "contents", path |-> path, outcome |-> outcome]

Post(type) == [type |-> type]
PostData(type, data) == [type |-> type, data |-> data]
\* The catch block of the handler: error.message as its lines.
PostError(lines) == [type |-> "error", error |-> lines]

TOKEN_NOT_CONFIGURED == "GitHub token not configured. Please add it in Settings."
TOKEN_EMPTY == "Token cannot be empty"

\* How one content read ended.
Outcome(got) ==
  IF "value" \in DOMAIN got THEN "ok"
  ELSE IF got.threw = "status" THEN (IF got.status = 404 THEN "not-found" ELSE "denied")
  ELSE got.threw

\* A new invocation of the handler starts with fresh locals.
NewLocals ==
  /\ githubToken' = Undefined
  /\ tokensMap' = <<>>
  /\ stats' = <<>>
  /\ keyOrderMaps' = <<>>
  /\ validation' = Undefined
  /\ currentTokensMap' = <<>>
  /\ changeDetection' = Undefined

\* The plugin has started: initialize() has read the storage and posted 'init'.
\* 'last-sync' counts the syncs saved; 0 is a storage without the key.
Started ==
  /\ net = "ok"
  /\ outbox = Undefined
  /\ clientStorage = [token |-> Undefined, lastSync |-> 0]
  /\ pc = "idle"
  /\ githubToken = Undefined
  /\ tokensMap = <<>>
  /\ stats = <<>>
  /\ keyOrderMaps = <<>>
  /\ validation = Undefined
  /\ currentTokensMap = <<>>
  /\ changeDetection = Undefined
  /\ posted = <<PostData("init", [hasToken |-> FALSE, lastSync |-> Null])>>
  /\ calls = <<StorageCall("getAsync", "github-token"), StorageCall("getAsync", "last-sync")>>

Init ==
  /\ figma \in Documents
  /\ repo \in Repositories
  /\ Started
  /\ input = Null
  /\ output = Null
  /\ suspended = Null

\* case 'sync-to-github': the message arrives, 'sync-started' is posted and the
\* stored token is requested.
SyncToGithub ==
  /\ pc = "idle"
  /\ clientStorage.lastSync < MaxSyncs
  /\ NewLocals
  /\ posted' = <<Post("sync-started")>>
  /\ calls' = <<StorageCall("getAsync", "github-token")>>
  /\ pc' = "token"
  /\ UNCHANGED <<input, output, suspended, env, clientStorage>>

\* The token arrives: without one the handler throws, otherwise extraction starts.
TokenRead ==
  /\ pc = "token"
  /\ githubToken' = clientStorage.token
  /\ IF Falsy(clientStorage.token)
       THEN /\ posted' = Append(posted, PostError(<<TOKEN_NOT_CONFIGURED>>))
            /\ pc' = "idle"
       ELSE /\ posted' = Append(posted, Post("progress"))
            /\ pc' = "extract"
  /\ UNCHANGED <<input, output, suspended, env, clientStorage, tokensMap, stats, keyOrderMaps, validation,
                 currentTokensMap, changeDetection, calls>>

\* case 'save-locally': 'sync-started' is posted and extraction starts.
SaveLocally ==
  /\ pc = "idle"
  /\ NewLocals
  /\ posted' = <<Post("sync-started")>>
  /\ calls' = <<>>
  /\ pc' = "local"
  /\ UNCHANGED <<input, output, suspended, env, clientStorage>>

\* saveTokensLocally: one 'download' message per extracted file.
saveTokensLocally(tokens, maps) ==
  LET extracted(f) == f \in DOMAIN tokens
      download(f) ==
        PostData("download",
                 [filename |-> f, content |-> stringifyPreservingOrder(f, tokens[f], maps)])
      each(entries) == [i \in DOMAIN entries |-> download(entries[i])]
  IN each(SelectSeq(FileOrder, extracted))

\* await extractAllTokens(), in a sync and in a local save.
ExtractAll ==
  /\ pc \in {"extract", "local"}
  /\ LET done(extracted) ==
           /\ tokensMap' = extracted.tokens
           /\ stats' = extracted.stats
           /\ keyOrderMaps' = extracted.keyOrderMaps
           /\ IF pc = "extract"
                THEN /\ posted' = Append(posted, Post("progress"))
                     /\ pc' = "themes"
                ELSE /\ posted' = posted \o saveTokensLocally(extracted.tokens, extracted.keyOrderMaps)
                                    \o <<PostData("saved-locally", extracted.stats)>>
                     /\ pc' = "idle"
     IN done(extractAllTokens(figma))
  /\ calls' = Append(calls, VariablesCall(figma))
  /\ UNCHANGED <<input, output, suspended, env, clientStorage, githubToken, validation, currentTokensMap, changeDetection>>

\* await extractThemeTokens(), the merge, 'extracted', and the validation gate.
ExtractThemes ==
  /\ pc = "themes"
  /\ LET gate(checked) ==
           /\ validation' = checked
           /\ IF ~checked.valid
                THEN /\ posted' = posted \o <<PostData("extracted", stats'),
                                              PostError(<<"Validation failed:">> \o checked.errors)>>
                     /\ pc' = "idle"
                ELSE /\ posted' = posted \o <<PostData("extracted", stats'), Post("progress")>>
                     /\ pc' = "fetch"
         merge(themes) ==
           /\ tokensMap' = MergeTokens(tokensMap, themes.tokens)
           /\ stats' = ("themes" :> themes.stats) @@ stats
     IN /\ merge(extractThemeTokens(figma))
        /\ gate(validateAllTokens(tokensMap'))
  /\ calls' = Append(calls, VariablesCall(figma))
  /\ UNCHANGED <<input, output, suspended, env, clientStorage, githubToken, keyOrderMaps, currentTokensMap, changeDetection>>

\* One read of fetchAllCurrentTokens.  After the last one the handler sorts the
\* theme trees, compares, and either reports no changes or posts the dispatch.
FetchFile ==
  /\ pc = "fetch"
  /\ LET publish(read) ==
           IF ~changeDetection'.hasChanges
             THEN /\ posted' = Append(posted,
                         PostData("no-changes", [totalTokens |-> stats["total"].processed]))
                  /\ calls' = read
                  /\ pc' = "idle"
             ELSE /\ posted' = Append(posted, Post("progress"))
                  /\ calls' = Append(read, triggerGitHubSync(tokensMap', changeDetection'.changedFiles,
                                                             keyOrderMaps))
                  /\ pc' = "dispatch"
         store(filePath, got) ==
           /\ currentTokensMap' = (filePath :> FetchOrSkeleton(filePath, got)) @@ currentTokensMap
           /\ IF DOMAIN currentTokensMap' # Files
                THEN /\ calls' = Append(calls, ContentCall(filePath, Outcome(got)))
                     /\ pc' = "fetch"
                     /\ UNCHANGED <<tokensMap, changeDetection, posted>>
                ELSE /\ tokensMap' = SortThemes(tokensMap, currentTokensMap')
                     /\ changeDetection' = detectChanges(tokensMap', currentTokensMap')
                     /\ publish(Append(calls, ContentCall(filePath, Outcome(got))))
         read(filePath) == store(filePath, fetchCurrentTokensFromFile(net, repo, filePath))
     IN read(FileOrder[Cardinality(DOMAIN currentTokensMap) + 1])
  /\ UNCHANGED <<input, output, suspended, env, clientStorage, githubToken, stats, keyOrderMaps, validation>>

\* What the dispatch endpoint answers: a status with the text of the body, or
\* a fetch that rejects.
DispatchAnswers ==
  {[status |-> 204, body |-> ""],
   [status |-> 401, body |-> "Bad credentials"],
   [status |-> 422, body |-> "Invalid request"],
   [threw |-> "Failed to fetch"]}

AnswerCall(answer) == [op |-> "answer", answer |-> answer]

\* A check that takes any answered request as a success.
ResponseOk_Any(answer) == "status" \in DOMAIN answer

\* response.ok
ResponseOk(answer) == "status" \in DOMAIN answer /\ answer.status \in 200..299

\* error.message of the error triggerGitHubSync ends with, in its pieces.
DispatchError(answer) ==
  IF "threw" \in DOMAIN answer THEN <<answer.threw>>
  ELSE <<"GitHub API error (", ToString(answer.status), "): ", answer.body>>

\* A handler that posts the dispatch again when it is refused.
DispatchAnswer_Retry(answer) ==
  /\ pc = "dispatch"
  /\ IF ResponseOk(answer)
       THEN /\ outbox' = calls[Len(calls)].files
            /\ calls' = calls \o <<AnswerCall(answer), StorageCall("setAsync", "last-sync")>>
            /\ pc' = "save"
       ELSE /\ calls' = calls \o <<AnswerCall(answer), calls[Len(calls)]>>
            /\ pc' = "dispatch"
            /\ UNCHANGED outbox
  /\ UNCHANGED <<input, output, suspended, figma, repo, net, clientStorage, locals, posted>>

\* The answer to the dispatch: accepted, a non-2xx status, or a rejected fetch.
DispatchAnswer(answer) ==
  /\ pc = "dispatch"
  /\ IF ResponseOk(answer)
       THEN /\ outbox' = calls[Len(calls)].files
            /\ calls' = calls \o <<AnswerCall(answer), StorageCall("setAsync", "last-sync")>>
            /\ pc' = "save"
            /\ UNCHANGED posted
       ELSE /\ posted' = Append(posted, PostError(DispatchError(answer)))
            /\ calls' = Append(calls, AnswerCall(answer))
            /\ pc' = "idle"
            /\ UNCHANGED outbox
  /\ UNCHANGED <<input, output, suspended, figma, repo, net, clientStorage, locals>>

\* A handler that ends an accepted sync without an event.
SaveLastSync_Silent ==
  /\ pc = "save"
  /\ clientStorage' = [clientStorage EXCEPT !.lastSync = @ + 1]
  /\ pc' = "idle"
  /\ UNCHANGED <<input, output, suspended, env, locals, calls, posted>>

\* setAsync('last-sync', Date.now()) completes and 'sync-success' is posted.
SaveLastSync ==
  /\ pc = "save"
  /\ clientStorage' = [clientStorage EXCEPT !.lastSync = @ + 1]
  /\ posted' = Append(posted, PostData("sync-success",
                  [changedFiles |-> changeDetection.changedFiles,
                   totalTokens |-> stats["total"].processed + stats["themes"].processed]))
  /\ pc' = "idle"
  /\ UNCHANGED <<input, output, suspended, env, locals, calls>>

\* msg.token of a 'save-github-token' message.
TokenInputs == {Undefined, Str(<<>>), Str(<<" ">>), Str(<<" ", "ghp", " ">>)}

\* case 'save-github-token'
SaveGithubToken(token) ==
  /\ pc = "idle"
  /\ NewLocals
  /\ IF Falsy(token) \/ Trim(token.str) = <<>>
       THEN /\ posted' = <<PostError(<<TOKEN_EMPTY>>)>>
            /\ calls' = <<>>
            /\ UNCHANGED clientStorage
       ELSE /\ clientStorage' = [clientStorage EXCEPT !.token = Str(Trim(token.str))]
            /\ posted' = <<Post("token-saved")>>
            /\ calls' = <<StorageCall("setAsync", "github-token")>>
  /\ UNCHANGED <<input, output, suspended, env, pc>>

\* case 'clear-github-token'
ClearGithubToken ==
  /\ pc = "idle"
  /\ NewLocals
  /\ clientStorage' = [clientStorage EXCEPT !.token = Undefined]
  /\ posted' = <<Post("token-cleared")>>
  /\ calls' = <<StorageCall("deleteAsync", "github-token")>>
  /\ UNCHANGED <<input, output, suspended, env, pc>>

\* case 'get-status'
GetStatus ==
  /\ pc = "idle"
  /\ NewLocals
  /\ posted' = <<PostData("status",
                   [hasToken |-> ~Falsy(clientStorage.token),
                    lastSync |-> IF clientStorage.lastSync = 0 THEN Null
                                 ELSE Num(clientStorage.lastSync)])>>
  /\ calls' = <<StorageCall("getAsync", "github-token"), StorageCall("getAsync", "last-sync")>>
  /\ UNCHANGED <<input, output, suspended, env, clientStorage, pc>>

\* The repository workflow writes the files of the accepted payload.
Publish ==
  /\ pc = "idle"
  /\ outbox # Undefined
  /\ repo' = [f \in Files |-> IF f \in DOMAIN outbox THEN outbox[f] ELSE repo[f]]
  /\ outbox' = Undefined
  /\ UNCHANGED <<input, output, suspended, figma, net, clientStorage, pc, locals, posted, calls>>

\* The content endpoint starts answering differently.
NetworkChange(n) ==
  /\ pc = "idle"
  /\ n # net
  /\ net' = n
  /\ UNCHANGED <<input, output, suspended, figma, repo, outbox, clientStorage, pc, locals, posted, calls>>

Next ==
  \/ SyncToGithub
  \/ TokenRead
  \/ SaveLocally
  \/ ExtractAll
  \/ ExtractThemes
  \/ FetchFile
  \/ \E answer \in DispatchAnswers : DispatchAnswer(answer)
  \/ SaveLastSync
  \/ \E token \in TokenInputs : SaveGithubToken(token)
  \/ ClearGithubToken
  \/ GetStatus
  \/ Publish
  \/ \E n \in NetStates : NetworkChange(n)

Spec == Init /\ [][Next]_vars

\* setAsync('last-sync', ...) rejects: the catch block posts the error.
SaveLastSyncFails ==
  /\ pc = "save"
  /\ posted' = Append(posted, PostError(<<"setAsync failed">>))
  /\ calls' = Append(calls, Call("rejected"))
  /\ pc' = "idle"
  /\ UNCHANGED <<input, output, suspended, env, clientStorage, locals>>

\* The positions of a handler: idle, or the await it is suspended at.
Positions == {"idle", "token", "extract", "local", "themes", "fetch", "dispatch", "save"}

\* A handler suspended at an await moves on to another position: the awaited
\* call has returned or failed and the continuation has run.
Settled ==
  /\ pc # "idle"
  /\ pc' \in Positions

LiveNext == Next \/ SaveLastSyncFails

\* Every awaited call of a handler settles: no handler stays at one await for
\* ever.
SpecLive == Init /\ [][LiveNext]_vars /\ WF_pc(Settled)

(* ---------------------------------------------------------------------- *)
(* The colour-only plugin (src/figma-plugin/code.ts)                      *)
(* ---------------------------------------------------------------------- *)

COLOR_JSON_PATH == "tokens/src/foundation/color.json"

isFoundationColor(name) == FOUNDATION_COLOR_PATTERN(name)

\* name.match(/^([a-z]+)\/(\d+)$/i)
parseVariableName(name) ==
  IF Len(name) = 3 /\ IsWord(name[1]) /\ name[2] = "/" /\ IsDigits(name[3])
    THEN [family |-> ToLowerCase(name[1]), shade |-> name[3]]
    ELSE Null

extractColors(doc) ==
  LET start == [foundation |-> EmptyObj, processed |-> 0, skipped |-> 0]
      add(acc, parsed, value) ==
        IF parsed = Null THEN [acc EXCEPT !.skipped = @ + 1]
        ELSE IF IsRgba(value) THEN
          [acc EXCEPT !.foundation = ObjSet2(@, <<parsed.family>>, <<parsed.shade>>,
                                             Token("color", Str(rgbToHex(value.rgba)))),
                      !.processed = @ + 1]
        ELSE acc
      step(acc, variable) ==
        IF ~isFoundationColor(variable.name) THEN [acc EXCEPT !.skipped = @ + 1]
        ELSE add(acc, parseVariableName(variable.name), FirstModeValue(variable))
      result(done) ==
        [tokens |-> Tree(done.foundation),
         stats |-> [processed |-> done.processed, skipped |-> done.skipped,
                    families |-> ObjSize(done.foundation)]]
  IN result(FoldSeq(step, start, getLocalVariables(doc, "COLOR")))

LegacyInit ==
  /\ figma \in Documents
  /\ repo = EmptyRepository
  /\ Started
  /\ input = Null
  /\ output = Null
  /\ suspended = Null

\* case 'sync-to-github': 'sync-started' is posted and extractColors is called.
LegacySyncToGithub ==
  /\ pc = "idle"
  /\ clientStorage.lastSync < MaxSyncs
  /\ NewLocals
  /\ posted' = <<Post("sync-started")>>
  /\ calls' = <<>>
  /\ pc' = "colors"
  /\ UNCHANGED <<input, output, suspended, env, clientStorage>>

\* case 'save-locally': 'sync-started' is posted and extractColors is called.
LegacySaveLocally ==
  /\ pc = "idle"
  /\ NewLocals
  /\ posted' = <<Post("sync-started")>>
  /\ calls' = <<>>
  /\ pc' = "localColors"
  /\ UNCHANGED <<input, output, suspended, env, clientStorage>>

\* await extractColors(): a sync posts 'extracted' and asks for the stored
\* token, a local save posts the download of color.json and 'saved-locally'.
LegacyExtractColors ==
  /\ pc \in {"colors", "localColors"}
  /\ LET done(extracted) ==
           /\ tokensMap' = (COLOR_JSON_PATH :> extracted.tokens)
           /\ stats' = extracted.stats
     IN done(extractColors(figma))
  /\ IF pc = "colors"
       THEN /\ posted' = Append(posted, PostData("extracted", stats'))
            /\ calls' = calls \o <<Call("variables"), StorageCall("getAsync", "github-token")>>
            /\ pc' = "token"
       ELSE /\ posted' = posted \o <<PostData("download", [filename |-> "color.json",
                                                           content |-> tokensMap'[COLOR_JSON_PATH]]),
                                     PostData("saved-locally", stats')>>
            /\ calls' = Append(calls, Call("variables"))
            /\ pc' = "idle"
  /\ UNCHANGED <<input, output, suspended, env, clientStorage, githubToken, keyOrderMaps, validation, currentTokensMap,
                 changeDetection>>

\* The token arrives: without one the handler throws, otherwise the dispatch is posted.
LegacyTokenRead ==
  /\ pc = "token"
  /\ githubToken' = clientStorage.token
  /\ IF Falsy(clientStorage.token)
       THEN /\ posted' = Append(posted, PostError(<<TOKEN_NOT_CONFIGURED>>))
            /\ pc' = "idle"
            /\ UNCHANGED calls
       ELSE /\ calls' = Append(calls, [op |-> "dispatch", tokens |-> tokensMap[COLOR_JSON_PATH]])
            /\ pc' = "dispatch"
            /\ UNCHANGED posted
  /\ UNCHANGED <<input, output, suspended, env, clientStorage, tokensMap, stats, keyOrderMaps, validation,
                 currentTokensMap, changeDetection>>

LegacyDispatchAnswer(answer) ==
  /\ pc = "dispatch"
  /\ IF ResponseOk(answer)
       THEN /\ calls' = calls \o <<AnswerCall(answer), StorageCall("setAsync", "last-sync")>>
            /\ pc' = "save"
            /\ UNCHANGED posted
       ELSE /\ posted' = Append(posted, PostError(DispatchError(answer)))
            /\ calls' = Append(calls, AnswerCall(answer))
            /\ pc' = "idle"
  /\ UNCHANGED <<input, output, suspended, env, clientStorage, locals>>

LegacySaveLastSync ==
  /\ pc = "save"
  /\ clientStorage' = [clientStorage EXCEPT !.lastSync = @ + 1]
  /\ posted' = Append(posted, PostData("sync-success", [colorCount |-> stats.processed]))
  /\ pc' = "idle"
  /\ UNCHANGED <<input, output, suspended, env, locals, calls>>

\* case 'save-github-token': msg.token is stored as it is.
LegacySaveGithubToken(token) ==
  /\ pc = "idle"
  /\ NewLocals
  /\ clientStorage' = [clientStorage EXCEPT !.token = token]
  /\ posted' = <<Post("token-saved")>>
  /\ calls' = <<StorageCall("setAsync", "github-token")>>
  /\ UNCHANGED <<input, output, suspended, env, pc>>

LegacyNext ==
  \/ LegacySyncToGithub
  \/ LegacySaveLocally
  \/ LegacyExtractColors
  \/ LegacyTokenRead
  \/ \E answer \in DispatchAnswers : LegacyDispatchAnswer(answer)
  \/ LegacySaveLastSync
  \/ \E token \in TokenInputs : LegacySaveGithubToken(token)
  \/ ClearGithubToken
  \/ GetStatus

SpecLegacy == LegacyInit /\ [][LegacyNext]_vars

(* ---------------------------------------------------------------------- *)
(* Extraction on its own                                                  *)
(* ---------------------------------------------------------------------- *)

\* Further variables a document may hold: aliases to targets of every shape of
\* name, foundation names that store an alias, opacity variants.
ExtractLibrary ==
  VariableLibrary \o
  << Variable("v6", <<"attachment", "/", "green">>, "COLOR", "primitives", OneMode(Alias("v5"))),
     Variable("v7", <<"sidebar", "-", "bg", "-", "16">>, "COLOR", "themes",
              TwoModes(Rgba(110, 345, 851, 1000), Rgba(110, 345, 851, 1000))),
     Variable("v8", <<"button", "-", "bg">>, "COLOR", "themes",
              TwoModes(Alias("v1"), Alias("v5"))),
     Variable("v9", <<"blue", "/", "300">>, "COLOR", "primitives", OneMode(Alias("v1"))),
     Variable("v10", <<"radius", "-", "s">>, "FLOAT", "primitives", OneMode(Alias("v3"))),
     Variable("v11", <<"radius", "-", "full">>, "FLOAT", "primitives", OneMode(Num(1000))),
     Variable("v12", <<"font", "/", "size", "/", "200">>, "FLOAT", "primitives",
              OneMode(Alias("v4"))),
     Variable("v13", <<"button", "-", "color">>, "COLOR", "themes",
              TwoModes(Alias("v7"), Rgba(0, 0, 0, 1000))),
     Variable("v14", <<"attachment", "/", "red">>, "COLOR", "primitives", OneMode(Alias("v9"))),
     Variable("v15", <<"bg">>, "COLOR", "themes", TwoModes(Alias("v9"), Alias("v8"))),
     Variable("v16", <<"attachment", "/", "orange">>, "COLOR", "primitives",
              OneMode(Alias("v7"))),
     Variable("v17", <<"font", "/", "family", "/", "code">>, "STRING", "primitives",
              OneMode(Str(<<"Menlo">>))),
     Variable("v18", <<"font", "/", "family", "/", "heading">>, "STRING", "primitives",
              OneMode(Str(<<"Lato">>))) >>

ExtractDocuments ==
  {[vars |-> Pick(ExtractLibrary, vs), styles |-> Pick(StyleLibrary, ss)] :
     vs \in {x \in SUBSET DOMAIN ExtractLibrary : Cardinality(x) <= MaxVars},
     ss \in {x \in SUBSET DOMAIN StyleLibrary : Cardinality(x) <= MaxStyles}}

ExtractInit ==
  /\ figma \in ExtractDocuments
  /\ repo = EmptyRepository
  /\ Started
  /\ input = Null
  /\ output = Null
  /\ suspended = Null

\* The handler up to the validation gate, and the local save.
ExtractNext ==
  \/ \E token \in TokenInputs : SaveGithubToken(token)
  \/ SyncToGithub
  \/ TokenRead
  \/ SaveLocally
  \/ ExtractAll
  \/ ExtractThemes

SpecExtract == ExtractInit /\ [][ExtractNext]_vars

(* ---------------------------------------------------------------------- *)
(* Functions on their own                                                 *)
(* ---------------------------------------------------------------------- *)

NoDocument == [vars |-> <<>>, styles |-> <<>>]

\* The plugin has started on an empty document and a function is about to be
\* applied to an argument of the set inputs.
Applying(inputs) ==
  /\ figma = NoDocument
  /\ repo = EmptyRepository
  /\ Started
  /\ input \in inputs
  /\ output = Null
  /\ suspended = Null

\* The function has returned.
Returned(value) ==
  /\ output = Null
  /\ output' = value
  /\ UNCHANGED <<env, clientStorage, pc, locals, posted, calls, input, suspended>>

\* Variable names of every category, and names that belong to none.
VariableNames ==
  {<<"blue", "/", "500">>, <<"Blue", "/", "500">>, <<"blue", "/", "300">>,
   <<"red", "/", "1000">>, <<"blue", "/", "500", "-", "8">>, <<"blue">>,
   <<"attachment", "/", "blue">>, <<"attachment", "/", "grey">>,
   <<"attachment", "/", "purple">>,
   <<"radius", "-", "m">>, <<"radius", "-", "full">>, <<"radius", "-", "xxl">>,
   <<"spacing", "-", "m">>, <<"spacing", "-", "xxl">>, <<"spacing", "-", "s">>,
   <<"font", "/", "family", "/", "heading">>, <<"font", "/", "family", "/", "mono">>,
   <<"font", "/", "size", "/", "100">>, <<"font", "/", "size", "/", "12">>,
   <<"font", "/", "weight", "/", "semi", "-", "bold">>, <<"font", "/", "weight", "/", "bold">>,
   <<"font", "/", "weight", "/", "heading">>,
   <<"line", "-", "height", "/", "heading", "/", "24">>,
   <<"line", "-", "height", "/", "code", "/", "24">>,
   <<"letter", "-", "spacing", "/", "tight", "-", "1">>,
   <<"letter", "-", "spacing", "/", "normal">>, <<"letter", "-", "spacing", "/", "wide">>,
   <<"sidebar", "-", "bg">>}

ResolvedTypes == {"COLOR", "FLOAT", "STRING"}

\* The parse function the extraction calls for a variable of a category.
ParseFor(category, name) ==
  CASE category.type = "foundation-color" -> parseFoundationColorName(name)
    [] category.type = "semantic-attachment" -> parseSemanticAttachmentName(name)
    [] category.type = "foundation-radius" -> parseFoundationRadiusName(name)
    [] category.type = "foundation-spacing" -> parseFoundationSpacingName(name)
    [] category.type = "typography-foundation" -> parseTypographyVariableName(name)

ClassifyInit == Applying([name : VariableNames, resolvedType : ResolvedTypes])

\* categorizeVariable(name, resolvedType), then the parse of the category.
Classify ==
  LET parsed(category) ==
        [category |-> category,
         parsed |-> IF category = Null THEN Null ELSE ParseFor(category, input.name)]
  IN Returned(parsed(categorizeVariable(input.name, input.resolvedType)))

SpecClassify == ClassifyInit /\ [][Classify]_vars

(* ---------------------------------------------------------------------- *)
(* The validation script (src/scripts/validate-tokens.js)                 *)
(* ---------------------------------------------------------------------- *)

\* Expected colour families and their shade counts.
EXPECTED_FAMILIES ==
  [f \in ColorFamilies |-> IF f = "neutral" THEN 25 ELSE 8]

EXPECTED_SEMANTIC_ATTACHMENT == <<"blue", "green", "orange", "red", "grey">>

ExpectedFamilyOrder ==
  <<"blue", "indigo", "neutral", "cyan", "purple", "teal", "yellow", "orange", "green", "red">>

ScriptValidateFoundationTokens(tokens) ==
  LET a0 == Warning(NoFindings, ~tokens.schema, "Foundation: Missing $schema field", <<>>)
      foundation == tokens.body
      shadeStep(family, shades, acc, shade) ==
        LET token == shades.at[shade]
            a1 == IF TokenType(token) = ""
                    THEN Error(acc, TRUE, "Missing $type field", <<family, shade>>)
                    ELSE Error(acc, TokenType(token) # "color", "Invalid $type",
                               <<family, shade>>)
            a2 == IF Falsy(TokenValue(token))
                    THEN Error(a1, TRUE, "Missing $value field", <<family, shade>>)
                    ELSE Error(a1, ~hexPattern(TokenValue(token)), "Invalid HEX format",
                               <<family, shade>>)
        IN Error(a2, /\ \/ \E i \in DOMAIN shade : shade[i] = "-"
                        \/ IsDigits(shade[Len(shade)])
                     /\ OpacityKey(shade),
                 "Opacity variant detected", <<family, shade>>)
      familyStep(acc, family) ==
        LET shades == foundation.at[family]
            step(a, shade) == shadeStep(family, shades, a, shade)
            expected == family[1] \in DOMAIN EXPECTED_FAMILIES
            a1 == Warning(acc, ~expected, "Foundation: Unexpected color family", <<family>>)
        IN Warning(FoldSeq(step, a1, ObjKeys(shades)),
                   expected /\ ObjSize(shades) # EXPECTED_FAMILIES[family[1]],
                   "Foundation: Expected shades, found", <<family>>)
      missing(acc, family) ==
        Warning(acc, ~ObjHas(foundation, <<family>>),
                "Foundation: Missing expected color family", <<<<family>>>>)
  IN IF ~tokens.root
       THEN [valid |-> FALSE,
             errors |-> <<Message("Foundation: Missing color.foundation key", <<>>)>>,
             warnings |-> a0.warnings]
       ELSE Result(FoldSeq(missing, FoldSeq(familyStep, a0, ObjKeys(foundation)),
                           ExpectedFamilyOrder))

validateSemanticAttachmentTokens(tokens) ==
  LET a0 == Warning(NoFindings, ~tokens.schema, "Semantic: Missing $schema field", <<>>)
      attachment == tokens.body
      step(acc, colorName) ==
        LET token == attachment.at[colorName]
            value == TokenValue(token)
            isReference == IsStr(value) /\ value.str # <<>> /\ value.str[1] = "{"
                             /\ value.str[Len(value.str)] = "}"
            isHex == hexPatternIgnoreCase(value)
            a1 == IF TokenType(token) = ""
                    THEN Error(acc, TRUE, "Missing $type field", <<colorName>>)
                    ELSE Error(acc, TokenType(token) # "color", "Invalid $type", <<colorName>>)
        IN IF Falsy(value)
             THEN Error(a1, TRUE, "Missing $value field", <<colorName>>)
             ELSE Warning(Error(a1, ~isReference /\ ~isHex,
                                "Value must be either a reference or a HEX color",
                                <<colorName>>),
                          isHex, "Using direct HEX value instead of reference", <<colorName>>)
      missing(acc, colorName) ==
        Warning(acc, ~ObjHas(attachment, <<colorName>>),
                "Semantic: Missing expected attachment color", <<<<colorName>>>>)
  IN IF ~tokens.root
       THEN [valid |-> FALSE,
             errors |-> <<Message("Semantic: Missing color.semantic.attachment key", <<>>)>>,
             warnings |-> a0.warnings]
       ELSE Result(FoldSeq(missing, FoldSeq(step, a0, ObjKeys(attachment)),
                           EXPECTED_SEMANTIC_ATTACHMENT))

(* ---------------------------------------------------------------------- *)
(* Validators on their own                                                *)
(* ---------------------------------------------------------------------- *)

MaxLeaves == 2

Leaf(path, token) == [path |-> path, token |-> token]

Hex(digits) == Str(<<"#">> \o digits)

\* Leaves a token file may hold: well formed and malformed ones.
LeafLibrary(kind) ==
  CASE kind = "color" ->
         << Leaf(<< <<"blue">>, <<"500">> >>,
                 Token("color", Hex(<<"1", "C", "5", "8", "D", "9">>))),
            Leaf(<< <<"blue">>, <<"500", "-", "8">> >>,
                 Token("color", Hex(<<"1", "C", "5", "8", "D", "9">>))),
            Leaf(<< <<"blue">>, <<"600">> >>,
                 Token("color", Hex(<<"1", "c", "5", "8", "d", "9">>))),
            Leaf(<< <<"red">>, <<"100">> >>, [value |-> Hex(<<"1", "C", "5", "8", "D", "9">>)]),
            Leaf(<< <<"red">>, <<"200">> >>,
                 Token("dimension", Hex(<<"1", "C", "5", "8", "D", "9">>))),
            Leaf(<< <<"red">>, <<"300">> >>, [type |-> "color"]),
            Leaf(<< <<"red">>, <<"400">> >>, Token("color", Hex(<<"1", "C", "5", "8", "D">>))) >>
    [] kind = "attachment" ->
         << Leaf(<< <<"blue">> >>, Token("color", Str(buildReference(<<"blue", "/", "300">>)))),
            Leaf(<< <<"green">> >>, Token("color", Hex(<<"1", "C", "5", "8", "D", "9">>))),
            Leaf(<< <<"red">> >>, Token("color", Str(<<"sidebar", "-", "bg">>))),
            Leaf(<< <<"grey">> >>, [value |-> Str(buildReference(<<"blue", "/", "300">>))]) >>
    [] kind = "dimension" ->
         << Leaf(<< <<"m">> >>, Token("dimension", Num(8))),
            Leaf(<< <<"xl">> >>, Token("dimension", Str(<<"50", "%">>))),
            Leaf(<< <<"xs">> >>, Token("dimension", Str(<<"wide">>))),
            Leaf(<< <<"l">> >>, [type |-> "dimension"]),
            Leaf(<< <<"m", "-", "8">> >>, Token("dimension", Num(8))) >>
    [] kind = "typography" ->
         << Leaf(<< <<"letterSpacing">>, <<"tight", "-", "1">> >>, Token("dimension", Num(-1))),
            Leaf(<< <<"fontSize">>, <<"100">> >>, Token("dimension", Num(16))),
            Leaf(<< <<"fontSize">>, <<"100", "-", "8">> >>, Token("dimension", Num(16))),
            Leaf(<< <<"fontWeight">>, <<"regular">> >>, Token("fontWeight", Str(<<"regular">>))) >>

\* The token file that holds the leaves.
TreeOf(leaves) ==
  LET put(o, leaf) ==
        IF Len(leaf.path) = 2 THEN ObjSet2(o, leaf.path[1], leaf.path[2], leaf.token)
        ELSE ObjSet(o, leaf.path[1], leaf.token)
  IN Tree(FoldSeq(put, EmptyObj, leaves))

\* A file of some leaves, and the same file without one of them (member 0:
\* without none).
ValidatorInputs ==
  UNION {UNION {{[kind |-> kind,
                  tokens |-> TreeOf(Pick(LeafLibrary(kind), chosen)),
                  leaves |-> Range(Pick(LeafLibrary(kind), chosen)),
                  member |-> member,
                  partial |-> TreeOf(Pick(LeafLibrary(kind), chosen \ {member}))] :
                 member \in chosen \cup {0}} :
               chosen \in {x \in SUBSET DOMAIN LeafLibrary(kind) : Cardinality(x) <= MaxLeaves}} :
         kind \in {"color", "attachment", "dimension", "typography"}}

\* The map of a run that extracted the tree.
MapOf(kind, tokens) ==
  CASE kind = "color" -> TOKEN_FILES.FOUNDATION_COLOR :> tokens
    [] kind = "attachment" -> TOKEN_FILES.SEMANTIC_ATTACHMENT :> tokens
    [] kind = "dimension" ->
         (TOKEN_FILES.FOUNDATION_RADIUS :> tokens) @@ (TOKEN_FILES.FOUNDATION_SPACING :> tokens)
    [] kind = "typography" -> TOKEN_FILES.TYPOGRAPHY_FOUNDATION :> tokens

ValidateInit == Applying(ValidatorInputs)

Validated(by, whole, partial) == [by |-> by, whole |-> whole, partial |-> partial]

ValidateFoundation ==
  /\ input.kind = "color"
  /\ Returned(Validated("validateFoundationTokens",
                       validateFoundationTokens(input.tokens), validateFoundationTokens(input.partial)))

ScriptValidateFoundation ==
  /\ input.kind = "color"
  /\ Returned(Validated("ScriptValidateFoundationTokens",
                       ScriptValidateFoundationTokens(input.tokens),
                       ScriptValidateFoundationTokens(input.partial)))

ValidateSemantic ==
  /\ input.kind = "attachment"
  /\ Returned(Validated("validateSemanticTokens",
                       validateSemanticTokens(input.tokens), validateSemanticTokens(input.partial)))

ScriptValidateAttachment ==
  /\ input.kind = "attachment"
  /\ Returned(Validated("validateSemanticAttachmentTokens",
                       validateSemanticAttachmentTokens(input.tokens),
                       validateSemanticAttachmentTokens(input.partial)))

ValidateRadius ==
  /\ input.kind = "dimension"
  /\ Returned(Validated("validateRadiusTokens",
                       validateRadiusTokens(input.tokens), validateRadiusTokens(input.partial)))

ValidateSpacing ==
  /\ input.kind = "dimension"
  /\ Returned(Validated("validateSpacingTokens",
                       validateSpacingTokens(input.tokens), validateSpacingTokens(input.partial)))

ValidateAll ==
  /\ input.kind \in {"color", "attachment", "dimension", "typography"}
  /\ Returned(Validated("validateAllTokens",
                       validateAllTokens(MapOf(input.kind, input.tokens)),
                       validateAllTokens(MapOf(input.kind, input.partial))))

ValidateNext ==
  \/ ValidateAll
  \/ ValidateFoundation
  \/ ScriptValidateFoundation
  \/ ValidateSemantic
  \/ ScriptValidateAttachment
  \/ ValidateRadius
  \/ ValidateSpacing

SpecValidate == ValidateInit /\ [][ValidateNext]_vars

(* ---------------------------------------------------------------------- *)
(* Text styles on their own                                               *)
(* ---------------------------------------------------------------------- *)

MaxTextStyles == 2

StyleVariants == {<<"Light">>, <<"Regular">>, <<"Semibold">>, <<"Bold">>}

\* Text styles of the three categories, without a variant, with each weight
\* variant and with All Caps.
TextStyles ==
  LET categories == <<"Heading", "Body", "Code">>
      sizes == <<"100", "700", "1000">>
      suffixes == << <<>>, <<" ", "-", " ", "Light">>, <<" ", "-", " ", "Regular">>,
                     <<" ", "-", " ", "Semibold">>, <<" ", "-", " ", "Bold">>,
                     <<" ", "-", " ", "All", " ", "Caps">> >>
  IN [i \in 1..54 |->
        [name |-> <<categories[((i - 1) \div 18) + 1], " ", sizes[(((i - 1) \div 6) % 3) + 1]>>
                  \o suffixes[((i - 1) % 6) + 1],
         letterSpacing |-> Pixels(0)]]

\* The subsets of S of at most n elements.
RECURSIVE AtMost(_, _)
AtMost(S, n) ==
  IF n = 0 THEN {{}}
  ELSE LET fewer == AtMost(S, n - 1) IN fewer \cup {x \cup {e} : x \in fewer, e \in S}

StylesInit == Applying({Pick(TextStyles, ss) : ss \in AtMost(DOMAIN TextStyles, MaxTextStyles)})

ExtractSemanticTypography ==
  LET doc == [vars |-> <<>>, styles |-> input]
  IN Returned(extractSemanticTypographyTokens(doc))

\* The dispatch of the semantic typography file alone, with the tree and the
\* key order map the builder returned.
PublishSemanticTypography ==
  /\ output # Null
  /\ calls[Len(calls)].op # "dispatch"
  /\ calls' = Append(calls,
                     triggerGitHubSync((TOKEN_FILES.TYPOGRAPHY_SEMANTIC :> output.tokens),
                                       <<TOKEN_FILES.TYPOGRAPHY_SEMANTIC>>, output.keyOrderMap))
  /\ UNCHANGED <<input, output, suspended, env, clientStorage, pc, locals, posted>>

StylesNext == ExtractSemanticTypography \/ PublishSemanticTypography

SpecStyles == StylesInit /\ [][StylesNext]_vars

(* ---------------------------------------------------------------------- *)
(* Two sync commands at once                                              *)
(* ---------------------------------------------------------------------- *)

\* The invocation of the message handler that is running: where it waits, its
\* locals, and what it has posted and requested.
Handler ==
  [pc |-> pc, githubToken |-> githubToken, tokensMap |-> tokensMap, stats |-> stats,
   keyOrderMaps |-> keyOrderMaps, validation |-> validation,
   currentTokensMap |-> currentTokensMap, changeDetection |-> changeDetection,
   posted |-> posted, calls |-> calls]

\* Documents the user moves between while handlers wait.
OverlapDocuments ==
  {[vars |-> Pick(VariableLibrary, vs), styles |-> <<>>] : vs \in {{1}, {1, 5}}}

\* The plugin has started on a storage that holds a token and earlier syncs.
OverlapInit ==
  /\ figma \in OverlapDocuments
  /\ repo = EarlierRepository
  /\ net = "ok"
  /\ outbox = Undefined
  /\ clientStorage = [token |-> Str(<<"ghp">>), lastSync |-> MaxSyncs - 1]
  /\ pc = "idle"
  /\ githubToken = Undefined
  /\ tokensMap = <<>>
  /\ stats = <<>>
  /\ keyOrderMaps = <<>>
  /\ validation = Undefined
  /\ currentTokensMap = <<>>
  /\ changeDetection = Undefined
  /\ posted = <<PostData("init", [hasToken |-> TRUE, lastSync |-> MaxSyncs - 1])>>
  /\ calls = <<StorageCall("getAsync", "github-token"), StorageCall("getAsync", "last-sync")>>
  /\ input = Null
  /\ output = Null
  /\ suspended = Null

\* A second 'sync-to-github' arrives while the handler waits at an await: a new
\* invocation starts with locals of its own and runs up to its first await.
SecondSync ==
  /\ pc # "idle"
  /\ IF suspended = Null THEN TRUE ELSE suspended.pc = "idle"
  /\ clientStorage.lastSync < MaxSyncs
  /\ suspended' = Handler
  /\ NewLocals
  /\ posted' = <<Post("sync-started")>>
  /\ calls' = <<StorageCall("getAsync", "github-token")>>
  /\ pc' = "token"
  /\ UNCHANGED <<input, output, env, clientStorage>>

\* A resumption that finds the trees where the other invocation left them.
Resume_SharedTrees ==
  /\ suspended # Null
  /\ suspended.pc # "idle"
  /\ suspended' = Handler
  /\ pc' = suspended.pc
  /\ githubToken' = suspended.githubToken
  /\ stats' = suspended.stats
  /\ keyOrderMaps' = suspended.keyOrderMaps
  /\ validation' = suspended.validation
  /\ currentTokensMap' = suspended.currentTokensMap
  /\ changeDetection' = suspended.changeDetection
  /\ posted' = suspended.posted
  /\ calls' = suspended.calls
  /\ UNCHANGED <<input, output, env, clientStorage, tokensMap>>

\* The promise the other invocation awaits settles first: it continues with its
\* own locals and this one waits.
Resume ==
  /\ suspended # Null
  /\ suspended.pc # "idle"
  /\ suspended' = Handler
  /\ pc' = suspended.pc
  /\ githubToken' = suspended.githubToken
  /\ tokensMap' = suspended.tokensMap
  /\ stats' = suspended.stats
  /\ keyOrderMaps' = suspended.keyOrderMaps
  /\ validation' = suspended.validation
  /\ currentTokensMap' = suspended.currentTokensMap
  /\ changeDetection' = suspended.changeDetection
  /\ posted' = suspended.posted
  /\ calls' = suspended.calls
  /\ UNCHANGED <<input, output, env, clientStorage>>

\* The user edits the document.
EditDocument ==
  /\ \E document \in OverlapDocuments \ {figma} : figma' = document
  /\ UNCHANGED <<input, output, suspended, repo, net, outbox, clientStorage, pc, locals,
                 posted, calls>>

OverlapNext ==
  \/ SyncToGithub
  \/ TokenRead
  \/ ExtractAll
  \/ ExtractThemes
  \/ FetchFile
  \/ \E answer \in DispatchAnswers : DispatchAnswer(answer)
  \/ SaveLastSync
  \/ SecondSync
  \/ Resume
  \/ EditDocument

SpecOverlap == OverlapInit /\ [][OverlapNext]_vars

\* A 'clear-github-token' message arrives while a sync waits at an await: its
\* handler deletes the stored token and posts 'token-cleared'; the locals of the
\* waiting sync, githubToken among them, stay as they are, and calls goes on
\* recording the requests of the sync alone.
ClearGithubTokenMidSync ==
  /\ pc # "idle"
  /\ ~Falsy(clientStorage.token)
  /\ clientStorage' = [clientStorage EXCEPT !.token = Undefined]
  /\ posted' = Append(posted, Post("token-cleared"))
  /\ UNCHANGED <<input, output, suspended, env, pc, locals, calls>>

ClearNext ==
  \/ SyncToGithub
  \/ TokenRead
  \/ ExtractAll
  \/ ExtractThemes
  \/ FetchFile
  \/ \E answer \in DispatchAnswers : DispatchAnswer(answer)
  \/ SaveLastSync
  \/ \E token \in TokenInputs : SaveGithubToken(token)
  \/ ClearGithubToken
  \/ ClearGithubTokenMidSync

SpecClear == OverlapInit /\ [][ClearNext]_vars

(* ---------------------------------------------------------------------- *)
(* sortThemeTokens on its own                                             *)
(* ---------------------------------------------------------------------- *)

MaxKeys == 2

\* Names of theme variables; one of them is written in digits only.
ThemeKeys == {<<"sidebar", "-", "bg">>, <<"button", "-", "bg">>, <<"bg">>, <<"16">>}

\* The sequences of at most n different theme keys.
RECURSIVE Arrangements(_)
Arrangements(n) ==
  IF n = 0 THEN {<<>>}
  ELSE LET shorter == Arrangements(n - 1)
       IN shorter \cup {Append(s, k) : s \in shorter, k \in ThemeKeys}

\* The theme tree whose keys were set in this order, all with one value.
ThemeTree(keys, hex) ==
  LET put(o, k) == ObjSet(o, k, Token("color", Hex(hex))) IN Tree(FoldSeq(put, EmptyObj, keys))

\* A freshly extracted theme tree and the tree parsed from the remote file, which
\* may lack the theme path.
SortInputs ==
  LET distinct(s) == Cardinality(Range(s)) = Len(s)
      orders == {s \in Arrangements(MaxKeys) : distinct(s)}
      extracted == {ThemeTree(s, <<"1", "C", "5", "8", "D", "9">>) : s \in orders}
      remote == {ThemeTree(s, <<"1", "C", "5", "8", "D", "7">>) : s \in orders}
                  \cup {EmptySkeleton_Rootless(TOKEN_FILES.THEME_DENIM)}
  IN [newTokens : extracted, currentTokens : remote, themeName : {"Denim"}]

SortInit == Applying(SortInputs)

SortTheme ==
  LET sorted == sortThemeTokens(input.newTokens, input.currentTokens, input.themeName)
  IN Returned(sorted)

SpecSort == SortInit /\ [][SortTheme]_vars

(* ---------------------------------------------------------------------- *)
(* Properties                                                             *)
(* ---------------------------------------------------------------------- *)

\* Positions in calls of the requests of one kind.
CallsOf(op) == {i \in DOMAIN calls : calls[i].op = op}

PostedTypes == {posted[i].type : i \in DOMAIN posted}

LastPosted == posted[Len(posted)]

\* The leaves of a tree: the key path of each token with its $value.
Leaves(tree) ==
  LET under(o) ==
        UNION {IF IsObj(o.at[k])
                 THEN {<<k, k2, TokenValue(o.at[k].at[k2])>> : k2 \in Range(o.at[k].order)}
                 ELSE {<<k, TokenValue(o.at[k])>>} : k \in Range(o.order)}
  IN under(Body(tree))

Detected == changeDetection # Undefined

\* C1: a run whose validation reports an error ends with an error event that
\* carries every error message, and has issued neither a content read nor the
\* dispatch; a dispatch is only issued by a run whose validation found no error.
C1_ValidationGate ==
  /\ (validation # Undefined /\ validation.errors # <<>>) =>
       /\ pc = "idle"
       /\ LastPosted = PostError(<<"Validation failed:">> \o validation.errors)
       /\ CallsOf("contents") = {}
       /\ CallsOf("dispatch") = {}
  /\ CallsOf("dispatch") # {} => (validation # Undefined /\ validation.errors = <<>>)

C1_Witness ==
  /\ validation # Undefined
  /\ validation.errors # <<>>
  /\ pc = "idle"
  /\ LastPosted.type = "error"

\* C2: a sync request handled while no token is stored ends with the
\* configuration error and has read no variables, read no remote file, issued no
\* dispatch and written nothing to storage.
C2_NoTokenNoWork ==
  LastPosted = PostError(<<TOKEN_NOT_CONFIGURED>>) =>
    /\ CallsOf("variables") = {}
    /\ CallsOf("contents") = {}
    /\ CallsOf("dispatch") = {}
    /\ CallsOf("setAsync") = {}
    /\ "extracted" \notin PostedTypes

\* C3: the step in which detectChanges returns an empty changedFiles list ends
\* the run with a no-changes event, without an error or sync-success event,
\* without a dispatch, and with the storage as it was.
C3_NoChanges ==
  [][(~Detected /\ Detected' /\ changeDetection'.changedFiles = <<>>) =>
       /\ pc' = "idle"
       /\ posted'[Len(posted')].type = "no-changes"
       /\ \A i \in DOMAIN posted' : posted'[i].type \notin {"error", "sync-success"}
       /\ \A i \in DOMAIN calls' : calls'[i].op \notin {"dispatch", "setAsync"}
       /\ clientStorage' = clientStorage]_vars

C3_Witness ==
  /\ Detected
  /\ changeDetection.changedFiles = <<>>
  /\ LastPosted.type = "no-changes"
  /\ \E f \in DOMAIN tokensMap : Leaves(tokensMap[f]) # {}

\* C4: the file paths of the dispatch payload are exactly the changedFiles of
\* the run.
C4_PayloadIsChangedFiles ==
  \A i \in CallsOf("dispatch") :
    Detected /\ DOMAIN calls[i].files = Range(changeDetection.changedFiles)

C4_Witness ==
  \E i \in CallsOf("dispatch") :
    /\ DOMAIN calls[i].files # {}
    /\ \E f \in DOMAIN tokensMap : Leaves(tokensMap[f]) # {} /\ f \notin DOMAIN calls[i].files

\* C5: a run issues at most one dispatch, after both variable reads and the
\* content reads of all eleven files, and none when it fails before publishing.
C5_OneDispatchAfterReads ==
  /\ Cardinality(CallsOf("dispatch")) <= 1
  /\ \A i \in CallsOf("dispatch") :
       /\ \A j \in CallsOf("variables") \cup CallsOf("contents") : j < i
       /\ Cardinality(CallsOf("variables")) = 2
       /\ {calls[j].path : j \in CallsOf("contents")} = Files
  /\ ("error" \in PostedTypes /\ ~Detected) => CallsOf("dispatch") = {}

C5_Witness == CallsOf("dispatch") # {} /\ pc = "save"

\* C6: after a content read answered not-found the run has not failed: the
\* current tree of that file has its root path and no leaves, every file is
\* still read, the comparison takes place, and an error can only come from the
\* dispatch.
C6_NotFoundIsEmpty ==
  \A i \in CallsOf("contents") :
    calls[i].outcome = "not-found" =>
      /\ currentTokensMap[calls[i].path].root
      /\ Leaves(currentTokensMap[calls[i].path]) = {}
      /\ pc # "fetch" => ({calls[j].path : j \in CallsOf("contents")} = Files /\ Detected)
      /\ "error" \in PostedTypes => CallsOf("dispatch") # {}

C6_Witness ==
  /\ \E i \in CallsOf("contents") : calls[i].outcome = "not-found"
  /\ \E i \in CallsOf("contents") : calls[i].outcome = "ok"
  /\ Detected
  /\ pc = "idle"

\* C7: after a content read that failed for another reason than not-found
\* (network, 401/403, unparseable body) the run issues no dispatch and ends with
\* an error event.
C7_FetchFailureAborts ==
  (\E i \in CallsOf("contents") : calls[i].outcome \in {"network", "denied", "syntax"}) =>
    /\ CallsOf("dispatch") = {}
    /\ pc = "idle" => LastPosted.type = "error"

\* C8: a file with extracted leaves is in changedFiles exactly when a leaf of
\* the new or the current tree has a different value on the two sides.
C8_FlaggedIffLeafDiffers ==
  Detected =>
    \A f \in DOMAIN tokensMap :
      Leaves(tokensMap[f]) # {} =>
        (f \in Range(changeDetection.changedFiles)
           <=> Leaves(tokensMap[f]) # Leaves(currentTokensMap[f]))

\* C9: a file whose new tree has no extracted token is never in changedFiles.
C9_EmptyNeverFlagged ==
  Detected =>
    \A f \in DOMAIN tokensMap :
      Leaves(tokensMap[f]) = {} => f \notin Range(changeDetection.changedFiles)

\* C10: whenever the current tree of every file has the leaves of the tree built
\* from the document, the run finds no changes and changedFiles is empty.
C10_Idempotent ==
  (Detected /\ \A f \in DOMAIN tokensMap : Leaves(tokensMap[f]) = Leaves(currentTokensMap[f])) =>
    /\ ~changeDetection.hasChanges
    /\ changeDetection.changedFiles = <<>>

C10_Witness ==
  /\ Detected
  /\ \A f \in DOMAIN tokensMap : Leaves(tokensMap[f]) = Leaves(currentTokensMap[f])
  /\ \E f \in DOMAIN tokensMap : Leaves(tokensMap[f]) # {}
  /\ clientStorage.lastSync > 0
  /\ LastPosted.type = "no-changes"

\* The answers the dispatch of the run has received.
Answers == {calls[i].answer : i \in CallsOf("answer")}

\* C11: after a dispatch answered with a status outside 200..299 the run has
\* ended with an error event whose message holds the status and the body of
\* the response, has posted no sync-success and has not written 'last-sync';
\* 'last-sync' only changes in a run whose dispatch was answered with a 2xx.
C11_RefusedDispatch ==
  /\ [](\A a \in Answers :
          ("status" \in DOMAIN a /\ a.status \notin 200..299) =>
            /\ pc = "idle"
            /\ LastPosted.type = "error"
            /\ ToString(a.status) \in Range(LastPosted.error)
            /\ a.body \in Range(LastPosted.error)
            /\ "sync-success" \notin PostedTypes
            /\ \A i \in CallsOf("setAsync") : calls[i].key # "last-sync")
  /\ [][clientStorage'.lastSync # clientStorage.lastSync =>
          /\ Answers # {}
          /\ \A a \in Answers : "status" \in DOMAIN a /\ a.status \in 200..299]_vars

C11_Witness ==
  /\ \E a \in Answers : "status" \in DOMAIN a /\ a.status = 422
  /\ pc = "idle"
  /\ LastPosted.type = "error"
  /\ clientStorage.lastSync = 1

\* The radius tree of the run, and the full token the builder adds.
RadiusBuilt == TOKEN_FILES.FOUNDATION_RADIUS \in DOMAIN tokensMap

RadiusTree == Body(tokensMap[TOKEN_FILES.FOUNDATION_RADIUS])

SyntheticFull ==
  [type |-> "dimension", value |-> Str(<<"50", "%">>),
   description |-> "Full radius - circular elements, pills, fully rounded buttons"]

HasFullVariable ==
  \E i \in DOMAIN figma.vars :
    figma.vars[i].name = <<"radius", "-", "full">> /\ figma.vars[i].resolvedType = "FLOAT"

FullPresent ==
  /\ ObjHas(RadiusTree, <<"full">>)
  /\ ~HasFullVariable => RadiusTree.at[<<"full">>] = SyntheticFull

IsReference(v) ==
  IsStr(v) /\ Len(v.str) >= 2 /\ v.str[1] = "{" /\ v.str[Len(v.str)] = "}"

ThemeModes == (CHOOSE c \in Collections : c.id = "themes").modes

\* C13: every $value emitted for an attachment variable or for a mode of a
\* theme variable whose stored value is an alias is a string of the form {...}.
C13_AliasGivesReference ==
  \A i \in DOMAIN figma.vars :
    /\ ( /\ TOKEN_FILES.SEMANTIC_ATTACHMENT \in DOMAIN tokensMap
         /\ figma.vars[i].resolvedType = "COLOR"
         /\ SEMANTIC_ATTACHMENT_PATTERN(figma.vars[i].name)
         /\ IsAlias(FirstModeValue(figma.vars[i]))
         /\ ObjHas(Body(tokensMap[TOKEN_FILES.SEMANTIC_ATTACHMENT]), <<figma.vars[i].name[3]>>) )
       => IsReference(Body(tokensMap[TOKEN_FILES.SEMANTIC_ATTACHMENT])
                        .at[<<figma.vars[i].name[3]>>].value)
    /\ \A m \in Range(ThemeModes) :
         ( /\ THEME_MODE_TO_FILE[m.name] \in DOMAIN tokensMap
           /\ figma.vars[i].variableCollectionId = "themes"
           /\ IsAlias(ValueInMode(figma.vars[i], m.modeId))
           /\ ObjHas(Body(tokensMap[THEME_MODE_TO_FILE[m.name]]), figma.vars[i].name) )
         => IsReference(Body(tokensMap[THEME_MODE_TO_FILE[m.name]]).at[figma.vars[i].name].value)

ThemesBuilt == \A f \in ThemeFiles : f \in DOMAIN tokensMap

OpacityNamed(variable) ==
  /\ variable.variableCollectionId = "themes"
  /\ Len(variable.name) >= 2
  /\ variable.name[Len(variable.name) - 1] = "-"
  /\ variable.name[Len(variable.name)] \in OPACITY_SUFFIXES

Translucent(variable, mode) ==
  /\ variable.variableCollectionId = "themes"
  /\ IsRgba(ValueInMode(variable, mode.modeId))
  /\ ValueInMode(variable, mode.modeId).rgba.a < 1000

\* C14: a theme variable whose name ends in an opacity suffix has no key in any
\* theme tree, and a literal colour with alpha below 1 in a mode has no token
\* in the tree of that mode.
C14_NoOpacityInThemes ==
  ThemesBuilt =>
    \A i \in DOMAIN figma.vars :
      /\ OpacityNamed(figma.vars[i]) =>
           \A f \in ThemeFiles : ~ObjHas(Body(tokensMap[f]), figma.vars[i].name)
      /\ \A m \in Range(ThemeModes) :
           Translucent(figma.vars[i], m) =>
             ~ObjHas(Body(tokensMap[THEME_MODE_TO_FILE[m.name]]), figma.vars[i].name)

C14_Witness ==
  /\ ThemesBuilt
  /\ \E i \in DOMAIN figma.vars : OpacityNamed(figma.vars[i])
  /\ \E i \in DOMAIN figma.vars :
       /\ \E m \in Range(ThemeModes) : Translucent(figma.vars[i], m)
       /\ \E f \in ThemeFiles : ObjHas(Body(tokensMap[f]), figma.vars[i].name)

FoundationFiles ==
  {TOKEN_FILES.FOUNDATION_COLOR, TOKEN_FILES.FOUNDATION_RADIUS,
   TOKEN_FILES.FOUNDATION_SPACING, TOKEN_FILES.TYPOGRAPHY_FOUNDATION}

\* The typography tree has one more level than Leaves descends.
LeafValues(f) ==
  IF f = TOKEN_FILES.TYPOGRAPHY_FOUNDATION \/ f = TOKEN_FILES.FOUNDATION_COLOR
    THEN {leaf[3] : leaf \in Leaves(tokensMap[f])}
    ELSE {leaf[2] : leaf \in Leaves(tokensMap[f])}

StoresAlias(variable) == IsAlias(FirstModeValue(variable))

FoundationNamed(variable) ==
  \/ variable.resolvedType = "COLOR" /\ FOUNDATION_COLOR_PATTERN(variable.name)
  \/ variable.resolvedType = "FLOAT" /\ FOUNDATION_RADIUS_PATTERN(variable.name)
  \/ variable.resolvedType = "FLOAT" /\ TYPOGRAPHY_FONT_SIZE_PATTERN(variable.name)

\* C15: no token of a foundation file (colour, radius, spacing, typography)
\* has a reference as its $value, whatever the variables store.
C15_FoundationNeverReferences ==
  \A f \in FoundationFiles \cap DOMAIN tokensMap :
    \A v \in LeafValues(f) : ~IsReference(v)

C15_Witness ==
  /\ \A f \in FoundationFiles : f \in DOMAIN tokensMap
  /\ \E i \in DOMAIN figma.vars : FoundationNamed(figma.vars[i]) /\ StoresAlias(figma.vars[i])
  /\ \E f \in FoundationFiles : LeafValues(f) # {}

\* The categories, by position, whose pattern matches the name and whose kind
\* is the kind of the variable.
Matching ==
  {i \in DOMAIN TOKEN_CATEGORIES :
     /\ PatternTest(TOKEN_CATEGORIES[i].pattern, input.name)
     /\ TOKEN_CATEGORIES[i].variableType = input.resolvedType}

\* C16: categorizeVariable returns the first category in declared order whose
\* pattern matches the name and whose kind is the kind of the variable, and
\* none otherwise (Blue/500, or blue/500 of kind number); the parse function
\* of a category it returns decomposes the same name.
C16_FirstMatchParses ==
  output # Null =>
    /\ Matching = {} => output.category = Null
    /\ Matching # {} =>
         /\ \E i \in Matching : /\ \A j \in Matching : i <= j
                                 /\ output.category = TOKEN_CATEGORIES[i]
         /\ output.parsed # Null
    /\ input.name = <<"Blue", "/", "500">> => output.category = Null
    /\ (input.name = <<"blue", "/", "500">> /\ input.resolvedType = "FLOAT")
         => output.category = Null

C16_Witness ==
  /\ output # Null
  /\ output.category # Null
  /\ output.category.subtype = "fontWeight"
  /\ output.category.variableType = "STRING"
  /\ output.parsed # Null

\* The leaf is one the claim says is in error.
Malformed(leaf) ==
  \/ "type" \notin DOMAIN leaf.token
  \/ leaf.token.type # "color"
  \/ "value" \notin DOMAIN leaf.token
  \/ Len(leaf.token.value.str) # 7
  \/ leaf.token.value.str[1] # "#"
  \/ \E i \in 2..7 : leaf.token.value.str[i] \notin UpperHex
  \/ /\ Len(leaf.path[2]) >= 2
     /\ leaf.path[2][Len(leaf.path[2]) - 1] = "-"
     /\ IsDigits(leaf.path[2][Len(leaf.path[2])])

ErrorsAbout(findings, leaf) ==
  {i \in DOMAIN findings.errors : findings.errors[i].names = leaf.path}

\* C17: both validateFoundationTokens report an error for a foundation colour
\* leaf exactly when its $type is missing or not color, its $value is missing
\* or not # followed by six of 0-9A-F, or its key ends in - and digits; key 500
\* with #1C58D9 has no error and the lowercase value has one.
C17_ColorLeafErrors ==
  (output # Null /\ input.kind = "color") =>
    /\ \A leaf \in input.leaves :
         ErrorsAbout(output.whole, leaf) # {} <=> Malformed(leaf)
    /\ output.whole.valid <=> \A leaf \in input.leaves : ~Malformed(leaf)
    /\ LeafLibrary("color")[1] \in input.leaves
         => ErrorsAbout(output.whole, LeafLibrary("color")[1]) = {}
    /\ LeafLibrary("color")[3] \in input.leaves
         => ErrorsAbout(output.whole, LeafLibrary("color")[3]) # {}

C17_Witness ==
  /\ output # Null
  /\ output.by = "ScriptValidateFoundationTokens"
  /\ LeafLibrary("color")[1] \in input.leaves
  /\ LeafLibrary("color")[3] \in input.leaves
  /\ ~output.whole.valid

\* C18: a file without one of its members has no error the whole file does not
\* have, and is valid when the whole file is: what is missing only adds warnings.
C18_MissingOnlyWarns ==
  output # Null =>
    /\ Range(output.partial.errors) \subseteq Range(output.whole.errors)
    /\ output.whole.valid => output.partial.valid

C18_Witness ==
  /\ output # Null
  /\ input.member # 0
  /\ output.whole.valid
  /\ output.partial.valid
  /\ Len(output.partial.warnings) > Len(output.whole.warnings)

\* C19: the token of a text style "{Heading|Body|Code} {size} - {Variant}" with
\* Variant Light, Regular, Semibold or Bold is at {category}.{size}-{variant} and
\* its fontWeight is the reference to typography.foundation.fontWeight.{variant}.
C19_WeightNamesVariant ==
  output # Null =>
    \A i \in DOMAIN input :
      LET name == input[i].name
          category == <<ToLowerCase(name[1])>>
          variant == LowerAll(SubSeq(name, 7, Len(name)))
          key == <<name[3], "-">> \o variant
      IN SubSeq(name, 7, Len(name)) \in StyleVariants =>
           /\ ObjHas(output.tokens.body.at[category], key)
           /\ output.tokens.body.at[category].at[key].value.fontWeight
                = Str(<<"{", "typography", ".", "foundation", ".", "fontWeight", ".">>
                      \o variant \o <<"}">>)

\* What an invocation has is what its own extraction and its own reads give.
OwnWork(run) ==
  LET variables(call) == call.op = "variables"
      docs == SelectSeq(run.calls, variables)
      extracted == extractAllTokens(docs[1].got)
      merged == MergeTokens(extracted.tokens, extractThemeTokens(docs[2].got).tokens)
      fetched == DOMAIN run.currentTokensMap = Files
  IN /\ Len(docs) >= 1 => run.keyOrderMaps = extracted.keyOrderMaps
     /\ Len(docs) = 1 => run.tokensMap = extracted.tokens
     /\ Len(docs) = 2 =>
          run.tokensMap = IF fetched THEN SortThemes(merged, run.currentTokensMap) ELSE merged
     /\ \A f \in DOMAIN run.currentTokensMap :
          run.currentTokensMap[f]
            = FetchOrSkeleton(f, fetchCurrentTokensFromFile(net, repo, f))
     /\ fetched => run.changeDetection = detectChanges(run.tokensMap, run.currentTokensMap)
     /\ run.pc = "dispatch" =>
          run.calls[Len(run.calls)]
            = triggerGitHubSync(run.tokensMap, run.changeDetection.changedFiles,
                                run.keyOrderMaps)

\* C20: of two sync-to-github commands in flight at once, each has the trees,
\* key-order maps, change set and payload that its own extraction and its own
\* fetch give, whatever the other one has done in between.
C20_RunsApart ==
  /\ OwnWork(Handler)
  /\ suspended # Null => OwnWork(suspended)

C20_Witness ==
  /\ suspended # Null
  /\ pc = "dispatch"
  /\ suspended.pc = "dispatch"
  /\ calls[Len(calls)] # suspended.calls[Len(suspended.calls)]

\* C21: the keys of the tree sortThemeTokens returns are the keys found both
\* remotely and in the new tree, in the remote order, and then the keys found
\* only in the new tree, in ascending order; each key has the new tree's token,
\* no other key is present and $schema is kept.
C21_RemoteOrderThenNew ==
  output # Null =>
    LET newKeys == ObjKeys(input.newTokens.body)
        currentOrder == ObjKeys(Body(input.currentTokens))
        inNew(key) == key \in Range(newKeys)
        kept == SelectSeq(currentOrder, inNew)
        keys == ObjKeys(output.body)
    IN /\ Range(keys) = Range(newKeys)
       /\ Len(keys) = Len(newKeys)
       /\ SubSeq(keys, 1, Len(kept)) = kept
       /\ \A i, j \in Len(kept) + 1 .. Len(keys) :
            i < j => StringCompare(keys[i], keys[j]) < 0
       /\ \A k \in Range(keys) : output.body.at[k] = input.newTokens.body.at[k]
       /\ output.schema = input.newTokens.schema

AttachmentBuilt == TOKEN_FILES.SEMANTIC_ATTACHMENT \in DOMAIN tokensMap

AttachmentNamed(variable) ==
  variable.resolvedType = "COLOR" /\ SEMANTIC_ATTACHMENT_PATTERN(variable.name)

\* The token extraction wrote for an attachment variable, if any.
HasAttachmentToken(variable) ==
  ObjHas(Body(tokensMap[TOKEN_FILES.SEMANTIC_ATTACHMENT]), <<variable.name[3]>>)

HasThemeToken(variable, mode) ==
  ObjHas(Body(tokensMap[THEME_MODE_TO_FILE[mode.name]]), variable.name)

\* The value is an alias of a variable of the document that stores an alias.
ChainedAlias(value) ==
  /\ IsAlias(value)
  /\ getVariableById(figma, value.alias) # Null
  /\ \E i \in DOMAIN getVariableById(figma, value.alias).valuesByMode :
       IsAlias(getVariableById(figma, value.alias).valuesByMode[i].value)

\* C22: an attachment variable, or a mode of a theme variable, that aliases a
\* variable whose own value is an alias gets no token and is counted as skipped.
C22_OneHopOnly ==
  \A i \in DOMAIN figma.vars :
    /\ (AttachmentBuilt /\ AttachmentNamed(figma.vars[i])
          /\ ChainedAlias(FirstModeValue(figma.vars[i])))
        => /\ ~HasAttachmentToken(figma.vars[i])
           /\ stats["semanticAttachment"].skipped > 0
    /\ \A m \in Range(ThemeModes) :
         (ThemesBuilt /\ figma.vars[i].variableCollectionId = "themes"
           /\ ChainedAlias(ValueInMode(figma.vars[i], m.modeId)))
         => /\ ~HasThemeToken(figma.vars[i], m)
            /\ stats["themes"].skipped > 0

\* The value is an alias of a variable of the document whose name ends in - and digits.
AliasOfOpacityVariant(value) ==
  LET suffixed(name) == Len(name) >= 2 /\ name[Len(name) - 1] = "-" /\ IsDigits(name[Len(name)])
  IN /\ IsAlias(value)
     /\ getVariableById(figma, value.alias) # Null
     /\ suffixed(getVariableById(figma, value.alias).name)

\* C23: an attachment variable, or a mode of a theme variable, that aliases a
\* variable whose name ends in a numeric opacity suffix gets no token.
C23_NoAliasOfOpacityVariant ==
  \A i \in DOMAIN figma.vars :
    /\ (AttachmentBuilt /\ AttachmentNamed(figma.vars[i])
          /\ AliasOfOpacityVariant(FirstModeValue(figma.vars[i])))
        => ~HasAttachmentToken(figma.vars[i])
    /\ \A m \in Range(ThemeModes) :
         (ThemesBuilt /\ figma.vars[i].variableCollectionId = "themes"
           /\ AliasOfOpacityVariant(ValueInMode(figma.vars[i], m.modeId)))
         => ~HasThemeToken(figma.vars[i], m)

\* The findings that name the key of a leaf.
ErrorsNaming(findings, leaf) ==
  {i \in DOMAIN findings.errors :
     /\ findings.errors[i].names # <<>>
     /\ findings.errors[i].names[Len(findings.errors[i].names)] = leaf.path[Len(leaf.path)]}

Suffixed(leaf) ==
  LET key == leaf.path[Len(leaf.path)]
  IN Len(key) >= 2 /\ key[Len(key) - 1] = "-" /\ IsDigits(key[Len(key)])

\* The leaf lacks $type or $value, or its value is a string that is no percentage.
IllFormed(leaf) ==
  \/ "type" \notin DOMAIN leaf.token
  \/ "value" \notin DOMAIN leaf.token
  \/ IsStr(leaf.token.value) /\ leaf.token.value.str[Len(leaf.token.value.str)] # "%"

\* C24 as stated: validateAllTokens has an error for every key ending in - and
\* digits in the colour, radius, spacing and typography foundation trees.
C24_SuffixedKeyIsError ==
  (output # Null /\ output.by = "validateAllTokens"
     /\ input.kind \in {"color", "dimension", "typography"}) =>
    \A leaf \in input.leaves : Suffixed(leaf) => ErrorsNaming(output.whole, leaf) # {}

\* C24: validateAllTokens has an error for every key ending in - and digits in
\* the foundation colour tree; in the radius, spacing and typography foundation
\* trees a leaf has an error exactly when its $type or $value is ill-formed,
\* whatever its key.
C24_SuffixedColourKeyIsError ==
  (output # Null /\ output.by = "validateAllTokens") =>
    /\ input.kind = "color" =>
         \A leaf \in input.leaves : Suffixed(leaf) => ErrorsNaming(output.whole, leaf) # {}
    /\ input.kind \in {"dimension", "typography"} =>
         \A leaf \in input.leaves : ErrorsNaming(output.whole, leaf) # {} <=> IllFormed(leaf)

C24_Witness ==
  /\ output # Null
  /\ output.by = "validateAllTokens"
  /\ input.kind = "typography"
  /\ \E leaf \in input.leaves : Suffixed(leaf)
  /\ output.whole.valid

\* The size and the variant of a semantic typography key.
KeySize(key) == DigitVal(key[1])

KeyVariant(key) == IF Len(key) = 1 THEN <<>> ELSE SubSeq(key, 3, Len(key))

\* The first key comes before the second: smaller size, or the same size and
\* no variant, or the same size and the variant earlier in the alphabet.
KeyBefore(a, b) ==
  \/ KeySize(a) < KeySize(b)
  \/ /\ KeySize(a) = KeySize(b)
     /\ \/ KeyVariant(a) = <<>> /\ KeyVariant(b) # <<>>
        \/ /\ KeyVariant(a) # <<>>
           /\ KeyVariant(b) # <<>>
           /\ WordRank(KeyVariant(a)[1]) < WordRank(KeyVariant(b)[1])

\* C25: the key order recorded for a semantic typography category that has
\* keys is a permutation of them by size ascending, and for one size the key
\* without variant first and then the variants in alphabetical order.
C25_SizeThenVariant ==
  output # Null =>
    \A c \in Range(SemanticCategories) :
      LET keys == ObjKeys(output.tokens.body.at[<<c>>])
      IN IF keys = <<>> THEN c \notin DOMAIN output.keyOrderMap
         ELSE /\ Len(output.keyOrderMap[c]) = Len(keys)
              /\ Range(output.keyOrderMap[c]) = Range(keys)
              /\ \A i, j \in DOMAIN output.keyOrderMap[c] :
                   i < j => KeyBefore(output.keyOrderMap[c][i], output.keyOrderMap[c][j])

C25_Witness ==
  /\ output # Null
  /\ \E c \in DOMAIN output.keyOrderMap :
       /\ Len(output.keyOrderMap[c]) = 2
       /\ output.keyOrderMap[c] # ObjKeys(output.tokens.body.at[<<c>>])
       /\ KeySize(output.keyOrderMap[c][1]) = KeySize(output.keyOrderMap[c][2])

\* The text published for the semantic typography file.
PublishedTypography == calls[Len(calls)].files[TOKEN_FILES.TYPOGRAPHY_SEMANTIC]

\* C26: the text published for the semantic typography tree lists the keys of
\* a category that has a registered key order in exactly that order (size,
\* then variant) and the keys of a category without one in the order of the
\* object, each key of the category once and with its token.
C26_PublishedInBuilderOrder ==
  (output # Null /\ calls[Len(calls)].op = "dispatch") =>
    \A c \in Range(SemanticCategories) :
      LET node == output.tokens.body.at[<<c>>]
          printed == PublishedTypography.body.at[<<c>>]
      IN /\ Len(printed.order) = Len(ObjKeys(node))
         /\ Range(printed.order) = Range(ObjKeys(node))
         /\ \A key \in Range(printed.order) : printed.at[key] = node.at[key]
         /\ IF c \in DOMAIN output.keyOrderMap
            THEN /\ printed.order = output.keyOrderMap[c]
                 /\ \A i, j \in DOMAIN printed.order :
                      i < j => KeyBefore(printed.order[i], printed.order[j])
            ELSE printed.order = ObjKeys(node)

C26_Witness ==
  /\ output # Null
  /\ calls[Len(calls)].op = "dispatch"
  /\ \E c \in DOMAIN output.keyOrderMap :
       /\ Len(PublishedTypography.body.at[<<c>>].order) = 2
       /\ PublishedTypography.body.at[<<c>>].order # ObjKeys(output.tokens.body.at[<<c>>])
  /\ \E c \in Range(SemanticCategories) : c \notin DOMAIN output.keyOrderMap

\* The variables and text styles extractAllTokens looks at.
Examined ==
  Len(getLocalVariables(figma, "COLOR")) + Len(getLocalVariables(figma, "FLOAT"))
    + Len(getLocalVariables(figma, "STRING")) + Len(figma.styles)

\* The foundation typography tree of the run holds no token.
NoTypographyToken ==
  \A p \in Range(ObjKeys(tokensMap[TOKEN_FILES.TYPOGRAPHY_FOUNDATION].body)) :
    ObjSize(tokensMap[TOKEN_FILES.TYPOGRAPHY_FOUNDATION].body.at[p]) = 0

\* C27: after extraction every examined variable or style is counted once,
\* as processed or as skipped, and nothing is counted as processed for
\* foundation typography when the typography tree received no token.
C27_CountersPartition ==
  (stats # <<>> /\ TOKEN_FILES.TYPOGRAPHY_FOUNDATION \in DOMAIN tokensMap) =>
    /\ stats["total"].processed + stats["total"].skipped = Examined
    /\ NoTypographyToken => stats["foundationTypography"].processed = 0

\* The events on record are those of a 'sync-to-github' message.
SyncRun ==
  /\ posted[1] = Post("sync-started")
  /\ calls # <<>>
  /\ calls[1] = StorageCall("getAsync", "github-token")

TerminalEvent(event) == event.type \in {"error", "no-changes", "sync-success"}

\* The events of a sync so far: 'sync-started' once and first, a terminal event
\* only as the last event of a finished run, and 'sync-success' only after an
\* accepted dispatch.
SyncEvents ==
  SyncRun =>
    /\ \A i \in DOMAIN posted : posted[i].type = "sync-started" => i = 1
    /\ \A i \in DOMAIN posted : TerminalEvent(posted[i]) => (i = Len(posted) /\ pc = "idle")
    /\ pc = "idle" => TerminalEvent(posted[Len(posted)])
    /\ posted[Len(posted)].type = "sync-success" =>
         \E j \in DOMAIN calls : calls[j].op = "answer" /\ ResponseOk(calls[j].answer)

\* C28: a sync whose awaited calls all settle posts 'sync-started' first and
\* then comes to an end with exactly one of 'error', 'no-changes' and
\* 'sync-success' as its last event, 'sync-success' only after the dispatch
\* was accepted.
C28_OneTerminalEvent ==
  /\ []SyncEvents
  /\ (pc = "token") ~> (pc = "idle" /\ SyncRun /\ TerminalEvent(posted[Len(posted)]))

C28_Witness ==
  /\ pc = "idle"
  /\ SyncRun
  /\ posted[Len(posted)].type = "sync-success"
  /\ \E i \in DOMAIN posted : posted[i].type = "extracted"

\* The step sends a request that carries the token of the handler: a read of a
\* file of the repository, or the dispatch.
SendsWithToken ==
  /\ Len(calls') > Len(calls)
  /\ \E i \in (Len(calls) + 1)..Len(calls') : calls'[i].op \in {"contents", "dispatch"}

\* C29: once the stored token is deleted and until another one is saved, no
\* step reads a file of the repository or posts the dispatch.
C29_NoRequestAfterClear ==
  [][SendsWithToken => ~Falsy(clientStorage.token)]_vars

\* The document holds the font family variable of the category, with a string.
FamilyVariable(c) ==
  \E i \in DOMAIN figma.vars :
    /\ figma.vars[i].name = <<"font", "/", "family", "/", c>>
    /\ figma.vars[i].resolvedType = "STRING"
    /\ IsStr(FirstModeValue(figma.vars[i]))

\* C30: the fontFamily reference of every semantic typography token of a
\* category whose font family variable was extracted names a key of the
\* fontFamily group of the foundation typography tree.
C30_FamilyKeyAgrees ==
  (/\ TOKEN_FILES.TYPOGRAPHY_SEMANTIC \in DOMAIN tokensMap
   /\ TOKEN_FILES.TYPOGRAPHY_FOUNDATION \in DOMAIN tokensMap) =>
    \A c \in Range(SemanticCategories) :
      FamilyVariable(c) =>
        \A key \in Range(ObjKeys(tokensMap[TOKEN_FILES.TYPOGRAPHY_SEMANTIC].body.at[<<c>>])) :
          \E k \in Range(ObjKeys(tokensMap[TOKEN_FILES.TYPOGRAPHY_FOUNDATION].body.at[<<"fontFamily">>])) :
            tokensMap[TOKEN_FILES.TYPOGRAPHY_SEMANTIC].body.at[<<c>>].at[key].value.fontFamily
              = TypographyRef("fontFamily", k)

====
